---- MODULE Spec2Model ----
(***************************************************************************)
(* Facial region segmentation and contour vectorisation service.           *)
(*                                                                         *)
(* Part I   raster primitives (masks are sets of pixels <<x, y>>, 255 = in) *)
(* Part II  FacialSegmentationProcessor: mask cleaning, subdivision,        *)
(*          contour extraction, the process_image pipeline                  *)
(* Part III ImageGenerator / SVGGenerator                                   *)
(* Part IV  the properties checked                                          *)
(***************************************************************************)
EXTENDS Integers, Sequences, FiniteSets, TLC

(***************************************************************************)
(* Bounds of the model.                                                    *)
(***************************************************************************)
GridW == 13
GridH == 13
\* worker threads of the model's thread pool
MaxWorkers == 2
\* requests sent to the submit endpoint in one run of the job service
MaxRequests == 2
\* width and height of the images on which the shifted overlays are drawn
StripW == 20
StripH == 50

(***************************************************************************)
(* Part I: raster primitives                                               *)
(***************************************************************************)
Px(w, h) == (0 .. w - 1) \X (0 .. h - 1)

Min2(a, b) == IF a < b THEN a ELSE b
Max2(a, b) == IF a > b THEN a ELSE b
Abs(a) == IF a < 0 THEN 0 - a ELSE a
\* LET with the value computed once and in full: F applied to the value of v
Let(v, F(_)) == CHOOSE r \in {F(x) : x \in {y \in {v} : y = y}} : TRUE
\* the value of v, computed in full
Val(v) == Let(v, LAMBDA x : x)
SetMin(S) == Let(S, LAMBDA T : CHOOSE a \in T : \A b \in T : a <= b)
SetMax(S) == Let(S, LAMBDA T : CHOOSE a \in T : \A b \in T : a >= b)

\* cv2.getStructuringElement(cv2.MORPH_ELLIPSE, (k, k)) as a set of offsets
StructuringElement(k) ==
    IF k = 3
    THEN {<<0, 0>>, <<1, 0>>, <<-1, 0>>, <<0, 1>>, <<0, -1>>}
    ELSE IF k = 5
    THEN {<<dx, dy>> \in (-2 .. 2) \X (-2 .. 2) : dx = 0 \/ Abs(dy) <= 1}
    ELSE {<<0, 0>>}

\* cv2.dilate with the default constant border: outside pixels never set a pixel
Dilate(m, K, w, h) ==
    Let(<<m, K>>, LAMBDA a :
        {p \in Px(w, h) : \E k \in a[2] : <<p[1] + k[1], p[2] + k[2]>> \in a[1]})

\* cv2.erode with the default constant border: outside pixels never clear a pixel
Erode(m, K, w, h) ==
    Let(<<m, K>>, LAMBDA a :
        {p \in a[1] : \A k \in a[2] :
            <<p[1] + k[1], p[2] + k[2]>> \in a[1]
                \/ <<p[1] + k[1], p[2] + k[2]>> \notin Px(w, h)})

RECURSIVE Iterate(_, _, _, _, _, _)
Iterate(op, m, K, w, h, n) ==
    IF n = 0 THEN m
    ELSE Let(IF op = "dilate" THEN Dilate(m, K, w, h) ELSE Erode(m, K, w, h),
             LAMBDA r : Iterate(op, r, K, w, h, n - 1))

\* cv2.morphologyEx(mask, cv2.MORPH_CLOSE / cv2.MORPH_OPEN, kernel, iterations)
MorphClose(m, K, w, h, n) == Iterate("erode", Iterate("dilate", m, K, w, h, n), K, w, h, n)
MorphOpen(m, K, w, h, n) == Iterate("dilate", Iterate("erode", m, K, w, h, n), K, w, h, n)

Nbr8(p) == {<<p[1] + dx, p[2] + dy>> : dx \in -1 .. 1, dy \in -1 .. 1}
Nbr4(p) == {p, <<p[1] + 1, p[2]>>, <<p[1] - 1, p[2]>>, <<p[1], p[2] + 1>>, <<p[1], p[2] - 1>>}

RECURSIVE Flood8(_, _)
Flood8(s, m) ==
    Let((UNION {Nbr8(p) : p \in s}) \cap m,
        LAMBDA n : IF n = s THEN n ELSE Flood8(n, m))

RECURSIVE Flood4(_, _)
Flood4(s, m) ==
    Let((UNION {Nbr4(p) : p \in s}) \cap m,
        LAMBDA n : IF n = s THEN n ELSE Flood4(n, m))

\* first pixel of a mask in raster scan order (top row first, left to right)
RasterFirst(m) ==
    CHOOSE p \in m : \A q \in m : p[2] < q[2] \/ (p[2] = q[2] /\ p[1] <= q[1])

\* 8-connected components, in the order a raster scan meets them
RECURSIVE Components(_)
Components(m) ==
    Let(m, LAMBDA mm :
        IF mm = {} THEN <<>>
        ELSE Let(Flood8({RasterFirst(mm)}, mm), LAMBDA c : <<c>> \o Components(mm \ c)))

\* the pixels a component's outer border encloses (the component and its holes):
\* what cv2.fillPoly / cv2.drawContours(thickness=-1) paint for that border
Enclosed(c, w, h) ==
    Let({p \in (-1 .. w) \X (-1 .. h) : p \notin c}, LAMBDA free :
        Px(w, h) \ Flood4({p \in free : p[1] = -1 \/ p[1] = w \/ p[2] = -1 \/ p[2] = h}, free))

\* RETR_EXTERNAL: a component lying in a hole of another one has no external border
IsExternal(c, m, w, h) ==
    Let({p \in (-1 .. w) \X (-1 .. h) : p \notin m}, LAMBDA free :
    Let(Flood4({p \in free : p[1] = -1 \/ p[1] = w \/ p[2] = -1 \/ p[2] = h}, free),
        LAMBDA outside : \E p \in c : Nbr4(p) \cap outside # {}))

\* the eight chain-code directions of the border follower
CodeDeltas == <<  <<1, 0>>, <<1, -1>>, <<0, -1>>, <<-1, -1>>,
                  <<-1, 0>>, <<-1, 1>>, <<0, 1>>, <<1, 1>>  >>
StepTo(p, s) == <<p[1] + CodeDeltas[(s % 8) + 1][1], p[2] + CodeDeltas[(s % 8) + 1][2]>>

\* clockwise search from the west neighbour for the first border neighbour
FirstDir(m, p0, s) ==
    (s + 7 * SetMin({k \in 1 .. 8 : StepTo(p0, (s + 7 * k) % 8) \in m \/ (s + 7 * k) % 8 = 4})) % 8

\* counter-clockwise search for the next border pixel
NextDir(m, p, s) ==
    (s + SetMin({k \in 1 .. 8 : StepTo(p, (s + k) % 8) \in m})) % 8

\* border following with CHAIN_APPROX_SIMPLE: a point is kept where the
\* direction of travel changes
\* one step of the border following from pixel i3, entered with search
\* direction s: the next border pixel; i3 is a vertex when the direction changes
FollowStep(m, i0, i1, st) ==
    Let(NextDir(m, st.i3, st.s), LAMBDA t :
    Let(IF t # st.prev THEN Append(st.acc, st.i3) ELSE st.acc, LAMBDA acc2 :
        IF StepTo(st.i3, t) = i0 /\ st.i3 = i1
        THEN [st EXCEPT !.acc = acc2, !.done = TRUE]
        ELSE [i3 |-> StepTo(st.i3, t), s |-> (t + 4) % 8, prev |-> t, acc |-> acc2,
              done |-> FALSE]))

\* the loop of the border following, stopped when the start is reached
\* again; n bounds its steps
RECURSIVE Follow(_, _, _, _, _)
Follow(m, i0, i1, st, n) ==
    IF st.done \/ n = 0 THEN st
    ELSE IF n = 1 THEN FollowStep(m, i0, i1, st)
    ELSE Let(Follow(m, i0, i1, st, n \div 2),
             LAMBDA half : Follow(m, i0, i1, half, n - (n \div 2)))


\* the outer border of the component c of mask m, as cv2.findContours returns it
BorderOf(c, m) ==
    Let(RasterFirst(c), LAMBDA i0 :
    Let(FirstDir(m, i0, 4), LAMBDA s :
        IF s = 4 THEN <<i0>>
        ELSE Follow(m, i0, StepTo(i0, s),
                    [i3 |-> i0, s |-> s, prev |-> (s + 4) % 8, acc |-> <<>>, done |-> FALSE],
                    4 * Cardinality(c)).acc))

\* twice cv2.contourArea (Green's formula on the border polygon)
RECURSIVE Shoelace(_, _, _)
Shoelace(pts, lo, hi) ==
    IF lo > hi THEN 0
    ELSE IF lo = hi
    THEN LET a == pts[lo]
             b == pts[IF lo = Len(pts) THEN 1 ELSE lo + 1]
         IN  a[1] * b[2] - b[1] * a[2]
    ELSE Shoelace(pts, lo, (lo + hi) \div 2) + Shoelace(pts, (lo + hi) \div 2 + 1, hi)
ContourArea2(pts) == Let(pts, LAMBDA q : Abs(Shoelace(q, 1, Len(q))))

(***************************************************************************)
(* Part II: FacialSegmentationProcessor                                    *)
(***************************************************************************)
\* SegmentationConfig: ratios are held in percent
DefaultConfig ==
    [ morphology_kernel_size  |-> 5,
      min_region_area         |-> 1,
      forehead_height_ratio   |-> 30,
      face_width_center_ratio |-> 65,
      ear_min_width           |-> 20,
      ear_search_start_ratio  |-> 30,
      ear_search_end_ratio    |-> 80 ]

\* int(n * pct / 100) for n >= 0
Pct(n, pct) == (n * pct) \div 100

Reverse(s) == [i \in 1 .. Len(s) |-> s[Len(s) + 1 - i]]

\* cv2.findContours(mask, RETR_EXTERNAL, CHAIN_APPROX_SIMPLE): one record per
\* external border, pts its points and comp the component it bounds.  The
\* order of the returned list is a property of the OpenCV build: scan order
\* or its reverse.
FindContours(m, w, h, order) ==
    Let(m, LAMBDA mm :
    Let(SelectSeq(Components(mm), LAMBDA c : IsExternal(c, mm, w, h)), LAMBDA cs :
    Let([i \in 1 .. Len(cs) |-> [pts |-> BorderOf(cs[i], mm), comp |-> cs[i]]] \o <<>>, LAMBDA lst :
        IF order = "scan" THEN lst ELSE Reverse(lst) \o <<>>)))

\* max(contours, key=cv2.contourArea): the first contour of maximal area
RECURSIVE MaxIndex(_, _, _)
MaxIndex(cs, i, best) ==
    IF i > Len(cs) THEN best
    ELSE Let(IF ContourArea2(cs[i].pts) > ContourArea2(cs[best].pts) THEN i ELSE best,
             LAMBDA b : MaxIndex(cs, i + 1, b))
LargestContour(cs) == Let(cs, LAMBDA l : l[MaxIndex(l, 2, 1)])

\* cv2.boundingRect of a contour
BoundingRect(pts) ==
    Let(pts, LAMBDA q :
    Let({q[i][1] : i \in 1 .. Len(q)}, LAMBDA xs :
    Let({q[i][2] : i \in 1 .. Len(q)}, LAMBDA ys :
    Let(SetMin(xs), LAMBDA x0 :
    Let(SetMin(ys), LAMBDA y0 :
        [x |-> x0, y |-> y0, w |-> SetMax(xs) - x0 + 1, h |-> SetMax(ys) - y0 + 1])))))

\* _get_unique_colors: np.unique sorts the colours; colours are numbered in
\* that (lexicographic) order, 0 being black
SortSet(S) ==
    Let(S, LAMBDA T :
        [i \in 1 .. Cardinality(T) |->
            CHOOSE a \in T : Cardinality({b \in T : b < a}) = i - 1] \o <<>>)
GetUniqueColors(seg) == SortSet({seg.px[p] : p \in Px(seg.w, seg.h)})

\* _create_clean_mask
CreateCleanMask(seg, color) ==
    Let(seg, LAMBDA s :
    Let({p \in Px(s.w, s.h) : s.px[p] = color}, LAMBDA m0 :
    Let(MorphClose(m0, StructuringElement(3), s.w, s.h, 2), LAMBDA m1 :
    Let(MorphOpen(m1, StructuringElement(3), s.w, s.h, 1), LAMBDA m2 :
    Let(MorphClose(m2, StructuringElement(5), s.w, s.h, 1), LAMBDA m3 :
        MorphOpen(m3, StructuringElement(5), s.w, s.h, 1))))))

\* _analyze_face_contour / _calculate_face_boundaries: the bounding box of the
\* largest external contour, or "none" when the mask has no contour
AnalyzeFaceContour(mask, w, h, order) ==
    Let(FindContours(mask, w, h, order), LAMBDA cs :
        IF cs = <<>> THEN [found |-> FALSE]
        ELSE [found |-> TRUE, bbox |-> BoundingRect(LargestContour(cs).pts)])

\* a forehead taken from the upper half of the bounding box
FindForeheadRegionUpperHalf(face, bbox, cfg, w, h, order) ==
    {p \in face : p[2] < bbox.y + Pct(bbox.h, 50) + 1}

\* _find_forehead_region
FindForeheadRegion(face, bbox, cfg, w, h, order) ==
    Let(bbox, LAMBDA b :
    Let(Pct(b.h, cfg.forehead_height_ratio), LAMBDA fh :
    Let({p \in Px(w, h) : /\ b.y <= p[2] /\ p[2] < b.y + fh
                          /\ b.x <= p[1] /\ p[1] < b.x + b.w}, LAMBDA band :
    Let(face \cap band, LAMBDA fm :
    Let(FindContours(fm, w, h, order), LAMBDA cs :
        IF cs # <<>> THEN Enclosed(LargestContour(cs).comp, w, h) ELSE fm)))))

RowPixels(mask, row) == {p[1] : p \in {q \in mask : q[2] = row}}

RECURSIVE SumSeq(_, _, _)
SumSeq(s, lo, hi) ==
    IF lo > hi THEN 0
    ELSE IF lo = hi THEN s[lo]
    ELSE SumSeq(s, lo, (lo + hi) \div 2) + SumSeq(s, (lo + hi) \div 2 + 1, hi)
\* int(np.mean(values)) for non-negative integers
IntMean(s) == SumSeq(s, 1, Len(s)) \div Len(s)

\* _analyze_face_profiles: every 5th row of the search band
RECURSIVE AnalyzeFaceProfiles(_, _, _, _)
AnalyzeFaceProfiles(mask, row, endRow, h) ==
    IF row >= endRow THEN <<>>
    ELSE Let(RowPixels(mask, row), LAMBDA px :
             (IF row < h /\ px # {}
              THEN << <<SetMin(px), SetMax(px), Cardinality(px)>> >>
              ELSE <<>>) \o AnalyzeFaceProfiles(mask, row + 5, endRow, h))

\* _clean_ear_mask keeping a largest contour whose area equals the threshold
CleanEarMaskAtThreshold(ear, cfg, w, h, order) ==
    Let(MorphOpen(ear, StructuringElement(3), w, h, 1), LAMBDA opened :
    Let(FindContours(opened, w, h, order), LAMBDA cs :
        IF cs = <<>> THEN {}
        ELSE Let(LargestContour(cs), LAMBDA largest :
                 IF ContourArea2(largest.pts) >= 2 * cfg.min_region_area
                 THEN Enclosed(largest.comp, w, h)
                 ELSE {})))

\* _clean_ear_mask
CleanEarMask(ear, cfg, w, h, order) ==
    Let(MorphOpen(ear, StructuringElement(3), w, h, 1), LAMBDA opened :
    Let(FindContours(opened, w, h, order), LAMBDA cs :
        IF cs = <<>> THEN {}
        ELSE Let(LargestContour(cs), LAMBDA largest :
                 IF ContourArea2(largest.pts) > 2 * cfg.min_region_area
                 THEN Enclosed(largest.comp, w, h)
                 ELSE {})))

\* the ear pixels _find_ear_regions collects before cleaning
RawEarMasks(face, bbox, cfg, w, h) ==
    Let(face, LAMBDA f :
    Let(bbox.y + Pct(bbox.h, cfg.ear_search_start_ratio), LAMBDA start :
    Let(bbox.y + Pct(bbox.h, cfg.ear_search_end_ratio), LAMBDA end :
    Let(AnalyzeFaceProfiles(f, start, end, h), LAMBDA profiles :
        IF profiles = <<>> THEN [left |-> {}, right |-> {}]
        ELSE
    Let(IntMean([i \in 1 .. Len(profiles) |-> profiles[i][1]]), LAMBDA avgLeft :
    Let(IntMean([i \in 1 .. Len(profiles) |-> profiles[i][2]]), LAMBDA avgRight :
    Let(IntMean([i \in 1 .. Len(profiles) |-> profiles[i][3]]), LAMBDA avgWidth :
    Let((avgWidth * cfg.face_width_center_ratio * 139) \div 10000, LAMBDA centralW :
    Let((avgWidth - centralW) \div 2, LAMBDA margin :
    Let(avgLeft + margin, LAMBDA cLeft :
    Let(avgRight - margin, LAMBDA cRight :
    Let({r \in start .. end - 1 : r < h /\ RowPixels(f, r) # {}}, LAMBDA rows :
        LET rl(r) == SetMin(RowPixels(f, r))
            rr(r) == SetMax(RowPixels(f, r))
        IN  [ left  |-> {p \in Px(w, h) :
                            /\ p[2] \in rows
                            /\ rl(p[2]) < cLeft
                            /\ cLeft - rl(p[2]) >= cfg.ear_min_width
                            /\ rl(p[2]) <= p[1]
                            /\ p[1] < Min2(cLeft, rr(p[2]) + 1)},
              right |-> {p \in Px(w, h) :
                            /\ p[2] \in rows
                            /\ rr(p[2]) > cRight
                            /\ rr(p[2]) - cRight >= cfg.ear_min_width
                            /\ Max2(cRight, rl(p[2])) <= p[1]
                            /\ p[1] <= rr(p[2])} ]))))))))))))

\* _find_ear_regions
FindEarRegions(face, bbox, cfg, w, h, order) ==
    Let(RawEarMasks(face, bbox, cfg, w, h), LAMBDA raw :
        [ left  |-> CleanEarMask(raw.left, cfg, w, h, order),
          right |-> CleanEarMask(raw.right, cfg, w, h, order) ])

\* the union of the filled contours whose area reaches the threshold
RECURSIVE FilledAbove(_, _, _, _, _)
FilledAbove(cs, i, minArea, w, h) ==
    IF i > Len(cs) THEN {}
    ELSE (IF ContourArea2(cs[i].pts) >= 2 * minArea THEN Enclosed(cs[i].comp, w, h) ELSE {})
         \cup FilledAbove(cs, i + 1, minArea, w, h)

\* _clean_region_mask
CleanRegionMask(mask, cfg, w, h, order) ==
    Let(mask, LAMBDA m :
        IF m = {} THEN m
        ELSE
    Let(StructuringElement(cfg.morphology_kernel_size), LAMBDA K :
    Let(MorphOpen(MorphClose(m, K, w, h, 1), K, w, h, 1), LAMBDA m1 :
    Let(FindContours(m1, w, h, order), LAMBDA cs :
        IF cs # <<>> THEN FilledAbove(cs, 1, cfg.min_region_area, w, h) ELSE m1))))

\* _create_chin_region: the rows from 66% of the face box down
CreateChinRegion(face, bbox, cfg, w, h, order) ==
    Let(bbox.y + Pct(bbox.h, 66), LAMBDA mouth :
    Let({p \in face : /\ Max2(mouth, bbox.y) <= p[2]
                      /\ p[2] < bbox.y + bbox.h
                      /\ p[2] < h}, LAMBDA chin :
        CleanRegionMask(chin, cfg, w, h, order)))

\* _subdivide_main_face_region, for a mask that has a contour
SubdivideMainFaceRegion(region1, bbox, cfg, w, h, order) ==
    Let(FindForeheadRegion(region1, bbox, cfg, w, h, order), LAMBDA forehead :
    Let(FindEarRegions(region1, bbox, cfg, w, h, order), LAMBDA ears :
    Let(((region1 \ forehead) \ ears.left) \ ears.right, LAMBDA rest :
    Let(CreateChinRegion(rest, bbox, cfg, w, h, order), LAMBDA chin :
        [ subdivisions |->
            << [name |-> "forehead",  mask |-> forehead,   region |-> 1],
               [name |-> "left_ear",  mask |-> ears.left,  region |-> 7],
               [name |-> "right_ear", mask |-> ears.right, region |-> 6],
               [name |-> "chin",      mask |-> chin,       region |-> 4] >>,
          main_face_mask |-> MorphOpen(rest, StructuringElement(3), w, h, 1) ]))))

\* _extract_contour_points
ExtractContourPoints(mask, w, h, order) ==
    Let(FindContours(mask, w, h, order), LAMBDA cs :
        IF cs = <<>> THEN <<>> ELSE LargestContour(cs).pts)

\* cv2.resize(segmentation_map, (width, height), interpolation=cv2.INTER_NEAREST)
ResizeNearest(seg, w, h) ==
    [ w  |-> w, h |-> h,
      px |-> [p \in Px(w, h) |->
                seg.px[<<Min2((p[1] * seg.w) \div w, seg.w - 1),
                         Min2((p[2] * seg.h) \div h, seg.h - 1)>>]] ]

\* a preparation that hands the map on at whatever size it has
PrepareImagesNoResize(shape, seg) == seg

\* _prepare_images
PrepareImages(shape, seg) ==
    IF <<seg.h, seg.w>> # shape THEN ResizeNearest(seg, shape[2], shape[1]) ELSE seg

(***************************************************************************)
(* Landmarks.  A landmark list is given by its length n and four points:   *)
(* the indices the eye lookups read carry the eye points, index 0 the      *)
(* first corner of the face and every other index the opposite corner.     *)
(***************************************************************************)
LeftEyeIdx  == {33, 133} \cup (36 .. 41)
RightEyeIdx == {362, 263} \cup (42 .. 47)
LandmarkAt(lm, i) ==
    IF i \in LeftEyeIdx THEN lm.leftEye
    ELSE IF i \in RightEyeIdx THEN lm.rightEye
    ELSE IF i = 0 THEN lm.lo ELSE lm.hi
LandmarkPoints(lm) == {LandmarkAt(lm, i) : i \in 0 .. lm.n - 1}

\* calculate_asymmetric_padding
CalculateAsymmetricPadding(w, h) ==
    [ x      |-> Max2(Pct(w, 20), 30),
      top    |-> Max2(Pct(h, 40), 50),
      bottom |-> Max2(Pct(h, 15), 20) ]

\* get_padded_bbox; shape is (height, width)
GetPaddedBbox(points, shape) ==
    Let({p[1] : p \in points}, LAMBDA xs :
    Let({p[2] : p \in points}, LAMBDA ys :
    Let(SetMin(xs), LAMBDA x :
    Let(SetMin(ys), LAMBDA y :
    Let(SetMax(xs) - x + 1, LAMBDA w :
    Let(SetMax(ys) - y + 1, LAMBDA h :
    Let(CalculateAsymmetricPadding(w, h), LAMBDA pad :
        [ x1 |-> Max2(x - pad.x, 0),
          y1 |-> Max2(y - pad.top, 0),
          x2 |-> Min2(x + w + pad.x, shape[2]),
          y2 |-> Min2(y + h + pad.bottom, shape[1]) ])))))))

\* rotate_and_crop_face: the eye lookups landmarks[[33, 133]] and
\* landmarks[[362, 263]] raise IndexError on a shorter list; level is TRUE when
\* the angle atan2(dY, dX) is 0, the rotation matrix then being the identity
RotateAndCropFace(lm, shape) ==
    IF lm.n <= 362 THEN [ok |-> FALSE, error |-> "IndexError"]
    ELSE LET dY == LandmarkAt(lm, 362)[2] + LandmarkAt(lm, 263)[2]
                   - LandmarkAt(lm, 33)[2] - LandmarkAt(lm, 133)[2]
             dX == LandmarkAt(lm, 362)[1] + LandmarkAt(lm, 263)[1]
                   - LandmarkAt(lm, 33)[1] - LandmarkAt(lm, 133)[1]
         IN  [ ok |-> TRUE, rotated |-> TRUE, level |-> (dY = 0 /\ dX >= 0),
               crop_box |-> GetPaddedBbox(LandmarkPoints(lm), shape) ]

\* rotated_seg_map[y1:y2, x1:x2]
CropSeg(seg, box) ==
    [ w  |-> box.x2 - box.x1, h |-> box.y2 - box.y1,
      px |-> [p \in Px(box.x2 - box.x1, box.y2 - box.y1) |->
                seg.px[<<p[1] + box.x1, p[2] + box.y1>>]] ]

\* autorotate_face: the eyes are the landmarks 36..41 and 42..47; without
\* both of them the input comes back as it is
AutorotateFace(lm) ==
    LET leftCount  == Cardinality({i \in 36 .. 41 : i < lm.n})
        rightCount == Cardinality({i \in 42 .. 47 : i < lm.n})
    IN  IF leftCount > 0 /\ rightCount > 0
        THEN [ok |-> TRUE, rotated |-> TRUE,
              level |-> (lm.rightEye[2] = lm.leftEye[2] /\ lm.rightEye[1] >= lm.leftEye[1])]
        ELSE [ok |-> TRUE, rotated |-> FALSE, level |-> TRUE]

(***************************************************************************)
(* Part III: ImageGenerator and SVGGenerator.                              *)
(* A Python value carries its type in kind: an image shape is "none" or a  *)
(* "tuple" of integers; a contour collection is a "dict" (items: the       *)
(* <<key, contour>> pairs in insertion order), a "list" (items: the        *)
(* contours, region id = position) or a "tuple".  An SVG document is the   *)
(* root's attributes and the sequence of its child elements.               *)
(***************************************************************************)
DigitChars == <<"0", "1", "2", "3", "4", "5", "6", "7", "8", "9">>
RECURSIVE NatStr(_)
NatStr(n) == IF n < 10 THEN DigitChars[n + 1] ELSE NatStr(n \div 10) \o DigitChars[(n % 10) + 1]
\* str(n) for a Python int
Str(n) == IF n < 0 THEN "-" \o NatStr(0 - n) ELSE NatStr(n)

\* _validate_inputs without the isinstance(contours, dict) test
ValidateInputsAnyContours(image_shape, contours) ==
    IF image_shape.kind = "none" \/ Len(image_shape.items) = 0 \/ Len(image_shape.items) # 2
    THEN FALSE
    ELSE ~(image_shape.items[1] <= 0 \/ image_shape.items[2] <= 0)

\* _validate_inputs (the same in both ImageGenerator classes)
ValidateInputs(image_shape, contours) ==
    IF image_shape.kind = "none" \/ Len(image_shape.items) = 0 \/ Len(image_shape.items) # 2
    THEN FALSE
    ELSE IF image_shape.items[1] <= 0 \/ image_shape.items[2] <= 0
    THEN FALSE
    ELSE contours.kind = "dict"

\* style_config.py: RegionStyle records of the three StyleConfig strategies
RegionStyle(stroke, fill, width, dash, font) ==
    [ stroke |-> stroke, fill |-> fill, stroke_width |-> width, stroke_dasharray |-> dash,
      font_size |-> font, text_color |-> "white" ]
GetRegionStyle(style_config, region_id) ==
    IF style_config = "default"
    THEN IF region_id = 1 THEN RegionStyle("#9D57A7", "rgba(161, 106, 169, 0.5)", 2, "5,5", 26)
         ELSE IF region_id \in 2 .. 7
         THEN RegionStyle("#A16AA9", "rgba(161, 106, 169, 0.5)", 2, "5,5", 26)
         ELSE RegionStyle("#000000", "rgba(0,0,0,0.2)", 2, "5,5", 26)
    ELSE IF style_config = "colorful"
    THEN IF region_id \in 1 .. 7
         THEN RegionStyle(<<"#FF6B6B", "#4ECDC4", "#45B7D1", "#96CEB4", "#FFEAA7", "#DDA0DD",
                            "#F39C12">>[region_id],
                          <<"rgba(255, 107, 107, 0.3)", "rgba(78, 205, 196, 0.3)",
                            "rgba(69, 183, 209, 0.3)", "rgba(150, 206, 180, 0.3)",
                            "rgba(255, 234, 167, 0.3)", "rgba(221, 160, 221, 0.3)",
                            "rgba(243, 156, 18, 0.3)">>[region_id], 2, "", 26)
         ELSE RegionStyle("#95A5A6", "rgba(149, 165, 166, 0.3)", 2, "", 26)
    ELSE RegionStyle("#000000", "rgba(0, 0, 0, 0.1)", 1, "", 20)

\* _create_svg_root
CreateSvgRoot(image_shape) ==
    [ attrs    |-> << <<"width", Str(image_shape.items[2])>>,
                      <<"height", Str(image_shape.items[1])>>,
                      <<"xmlns", "http://www.w3.org/2000/svg">>,
                      <<"viewBox", "0 0 " \o Str(image_shape.items[2]) \o " "
                                          \o Str(image_shape.items[1])>> >>,
      children |-> <<>> ]

\* a background that is appended twice
AddBackgroundImageTwice(svg_root, processed_image, image_shape) ==
    [svg_root EXCEPT !.children = @ \o
        [i \in 1 .. 2 |->
           [ tag   |-> "image",
             attrs |-> << <<"href", "data:image/png;base64," \o "png(" \o processed_image \o ")">>,
                          <<"x", "0">>, <<"y", "0">>,
                          <<"width", Str(image_shape.items[2])>>,
                          <<"height", Str(image_shape.items[1])>>,
                          <<"class", "background-image">> >>,
             text  |-> "" ]]]

\* _add_background_image; the PNG bytes of an image are named by the image
AddBackgroundImage(svg_root, processed_image, image_shape) ==
    [svg_root EXCEPT !.children = Append(@,
        [ tag   |-> "image",
          attrs |-> << <<"href", "data:image/png;base64," \o "png(" \o processed_image \o ")">>,
                       <<"x", "0">>, <<"y", "0">>,
                       <<"width", Str(image_shape.items[2])>>,
                       <<"height", Str(image_shape.items[1])>>,
                       <<"class", "background-image">> >>,
          text  |-> "" ])]

\* _create_path_data
RECURSIVE LineCommands(_, _)
LineCommands(contour, i) ==
    IF i > Len(contour) THEN ""
    ELSE " L" \o Str(contour[i][1]) \o "," \o Str(contour[i][2]) \o LineCommands(contour, i + 1)
CreatePathData(contour) ==
    IF Len(contour) = 0 THEN ""
    ELSE "M" \o Str(contour[1][1]) \o "," \o Str(contour[1][2]) \o LineCommands(contour, 2) \o " Z"

\* int(a / b): Python truncates towards zero
TruncDiv(a, b) ==
    IF (a < 0) = (b < 0) THEN Abs(a) \div Abs(b) ELSE 0 - (Abs(a) \div Abs(b))

\* cv2.moments of a polygon: a00 = 2 m00, a10 = 6 m10, a01 = 6 m01 up to a common sign
RECURSIVE MomentSum(_, _, _, _)
MomentSum(pts, lo, hi, which) ==
    IF lo > hi THEN 0
    ELSE IF lo = hi
    THEN LET a == pts[IF lo = 1 THEN Len(pts) ELSE lo - 1]
             b == pts[lo]
             d == a[1] * b[2] - b[1] * a[2]
         IN  IF which = "a00" THEN d
             ELSE IF which = "a10" THEN d * (a[1] + b[1])
             ELSE d * (a[2] + b[2])
    ELSE MomentSum(pts, lo, (lo + hi) \div 2, which)
             + MomentSum(pts, (lo + hi) \div 2 + 1, hi, which)

\* _compute_centroid, in exact arithmetic
ComputeCentroid(contour) ==
    Let(contour, LAMBDA c :
    Let(MomentSum(c, 1, Len(c), "a00"), LAMBDA a00 :
        IF a00 # 0
        THEN << TruncDiv(MomentSum(c, 1, Len(c), "a10"), 3 * a00),
                TruncDiv(MomentSum(c, 1, Len(c), "a01"), 3 * a00) >>
        ELSE << TruncDiv(SumSeq([i \in 1 .. Len(c) |-> c[i][1]], 1, Len(c)), Len(c)),
                TruncDiv(SumSeq([i \in 1 .. Len(c) |-> c[i][2]], 1, Len(c)), Len(c)) >>))

\* _create_path_element of src/facial (the dash array is left out when unset)
CreatePathElement(path_data, region_id, style_config) ==
    Let(GetRegionStyle(style_config, region_id), LAMBDA style :
        [ tag   |-> "path",
          attrs |-> << <<"d", path_data>>, <<"stroke", style.stroke>>,
                       <<"stroke-width", Str(style.stroke_width)>>, <<"fill", style.fill>>,
                       <<"class", "region-" \o Str(region_id)>> >>
                    \o (IF style.stroke_dasharray # ""
                        THEN << <<"stroke-dasharray", style.stroke_dasharray>> >> ELSE <<>>),
          text  |-> "" ])

\* a label that is shifted right for every region
CreateLabelElementNudgeAll(contour, region_id, style_config) ==
    Let(ComputeCentroid(contour), LAMBDA c :
    Let(GetRegionStyle(style_config, region_id), LAMBDA style :
        [ tag   |-> "text",
          attrs |-> << <<"x", Str(c[1] + 160)>>, <<"y", Str(c[2])>>,
                       <<"fill", style.text_color>>,
                       <<"font-size", Str(style.font_size)>>, <<"text-anchor", "middle">>,
                       <<"dominant-baseline", "middle">>,
                       <<"class", "region-label-" \o Str(region_id)>> >>,
          text  |-> Str(region_id) ]))

\* the text element _add_regions_to_svg appends after a path
CreateLabelElement(contour, region_id, style_config) ==
    Let(ComputeCentroid(contour), LAMBDA c :
    Let(IF region_id = 4 THEN c[1] + 160 ELSE c[1], LAMBDA cx :
    Let(GetRegionStyle(style_config, region_id), LAMBDA style :
        [ tag   |-> "text",
          attrs |-> << <<"x", Str(cx)>>, <<"y", Str(c[2])>>, <<"fill", style.text_color>>,
                       <<"font-size", Str(style.font_size)>>, <<"text-anchor", "middle">>,
                       <<"dominant-baseline", "middle">>,
                       <<"class", "region-label-" \o Str(region_id)>> >>,
          text  |-> Str(region_id) ])))

\* the elements one (region_id, contour) pair adds
RegionElements(region_id, contour, style_config) ==
    IF Len(contour) < 3 THEN <<>>
    ELSE Let(CreatePathData(contour), LAMBDA path_data :
             IF path_data = "" THEN <<>>
             ELSE << CreatePathElement(path_data, region_id, style_config),
                     CreateLabelElement(contour, region_id, style_config) >>)

\* _add_regions_to_svg of src/facial: for region_id, contour in contours.items()
RECURSIVE AddRegionsToSvg(_, _, _, _)
AddRegionsToSvg(svg_root, items, i, style_config) ==
    IF i > Len(items) THEN svg_root
    ELSE Let([svg_root EXCEPT !.children =
                 @ \o RegionElements(items[i][1], items[i][2], style_config)],
             LAMBDA root : AddRegionsToSvg(root, items, i + 1, style_config))

\* ET.tostring(svg_root, encoding="utf-8")
RECURSIVE AttrText(_, _)
AttrText(attrs, i) ==
    IF i > Len(attrs) THEN ""
    ELSE " " \o attrs[i][1] \o "=\"" \o attrs[i][2] \o "\"" \o AttrText(attrs, i + 1)
ElementText(e) ==
    "<" \o e.tag \o AttrText(e.attrs, 1)
        \o (IF e.text = "" THEN " />" ELSE ">" \o e.text \o "</" \o e.tag \o ">")
RECURSIVE ChildrenText(_, _)
ChildrenText(children, i) ==
    IF i > Len(children) THEN ""
    ELSE ElementText(children[i]) \o ChildrenText(children, i + 1)
ToXmlString(svg_root) ==
    "<svg" \o AttrText(svg_root.attrs, 1)
           \o (IF Len(svg_root.children) = 0 THEN " />"
               ELSE ">" \o ChildrenText(svg_root.children, 1) \o "</svg>")

\* _encode_svg: the base64 text of the serialised document.  base64 is
\* one-to-one, so the encoded text is named by the text it encodes.
EncodeSvg(svg_root) == [encoding |-> "base64", of |-> ToXmlString(svg_root)]

\* _create_path_element of src/app: fixed width and dash array
CreatePathElementApp(path_data, region_id) ==
    Let(GetRegionStyle("default", region_id), LAMBDA style :
        [ tag   |-> "path",
          attrs |-> << <<"d", path_data>>, <<"stroke", style.stroke>>, <<"stroke-width", "2">>,
                       <<"stroke-dasharray", "5,5">>, <<"fill", style.fill>>,
                       <<"class", "region-" \o Str(region_id)>> >>,
          text  |-> "" ])

\* _add_regions_to_svg of src/app: for region_id, contour in enumerate(regions).
\* Over a list the index is the region id.  Over a dict enumerate yields the
\* keys: key 0 is skipped by "not contour", len() of any other int key raises.
RECURSIVE AddRegionsToSvgApp(_, _, _)
AddRegionsToSvgApp(svg_root, regions, i) ==
    IF i > Len(regions.items) THEN [ok |-> TRUE, root |-> svg_root, error |-> ""]
    ELSE IF regions.kind = "dict"
    THEN IF regions.items[i][1] = 0 THEN AddRegionsToSvgApp(svg_root, regions, i + 1)
         ELSE [ok |-> FALSE, root |-> svg_root,
               error |-> "TypeError: object of type 'int' has no len()"]
    ELSE Let(regions.items[i], LAMBDA contour :
         Let(IF Len(contour) < 3 THEN <<>>
             ELSE << CreatePathElementApp(CreatePathData(contour), i - 1),
                     CreateLabelElement(contour, i - 1, "default") >>, LAMBDA els :
         Let([svg_root EXCEPT !.children = @ \o els], LAMBDA root :
             AddRegionsToSvgApp(root, regions, i + 1))))

NoDocument == [encoding |-> "none", of |-> ""]

\* SVGGenerator.generate of src/facial: any exception becomes a ProcessingError
Generate(image_shape, contours, processed_image, style_config) ==
    IF image_shape.kind = "none" \/ Len(image_shape.items) < 2
    THEN [ok |-> FALSE, value |-> NoDocument, error |-> "ProcessingError"]
    ELSE IF contours.kind # "dict"
    THEN [ok |-> FALSE, value |-> NoDocument, error |-> "ProcessingError"]
    ELSE Let(CreateSvgRoot(image_shape), LAMBDA root :
         Let(IF processed_image # "none"
             THEN AddBackgroundImage(root, processed_image, image_shape) ELSE root, LAMBDA bg :
             [ok |-> TRUE, value |-> EncodeSvg(AddRegionsToSvg(bg, contours.items, 1, style_config)),
              error |-> ""]))

\* SVGGenerator.generate of src/app: exceptions propagate as they are
GenerateApp(image_shape, regions, processed_image) ==
    IF image_shape.kind = "none"
    THEN [ok |-> FALSE, value |-> NoDocument, error |-> "TypeError"]
    ELSE IF Len(image_shape.items) < 2
    THEN [ok |-> FALSE, value |-> NoDocument, error |-> "IndexError"]
    ELSE Let(CreateSvgRoot(image_shape), LAMBDA root :
         Let(IF processed_image # "none"
             THEN AddBackgroundImage(root, processed_image, image_shape) ELSE root, LAMBDA bg :
         Let(AddRegionsToSvgApp(bg, regions, 1), LAMBDA r :
             IF r.ok THEN [ok |-> TRUE, value |-> EncodeSvg(r.root), error |-> ""]
             ELSE [ok |-> FALSE, value |-> NoDocument, error |-> r.error])))

\* ImageGenerator.create of src/facial: InvalidInputError is re-raised as it
\* is, anything generate raises becomes a ProcessingError.  invoked tells
\* whether generate() was called.
Create(image_shape, contours, processed_image, style_config) ==
    IF ~ValidateInputs(image_shape, contours)
    THEN [ok |-> FALSE, value |-> NoDocument, invoked |-> FALSE,
          error |-> "InvalidInputError: Invalid input parameters provided"]
    ELSE Let(Generate(image_shape, contours, processed_image, style_config), LAMBDA r :
             [ok |-> r.ok, value |-> r.value, invoked |-> TRUE, error |-> r.error])

\* ImageGenerator.create of src/app
CreateApp(image_shape, contours, processed_image) ==
    IF ~ValidateInputs(image_shape, contours)
    THEN [ok |-> FALSE, value |-> NoDocument, invoked |-> FALSE,
          error |-> "ValueError: Invalid input parameters"]
    ELSE Let(GenerateApp(image_shape, contours, processed_image), LAMBDA r :
             [ok |-> r.ok, value |-> r.value, invoked |-> TRUE, error |-> r.error])

\* draw_u_shaped_eye_mask: the filled lower half (0 to 180 degrees) of the
\* ellipse with semi-axes (width // 16, height // 20); with both axes 0 it is
\* the centre pixel
DrawUShapedEyeMask(width, height, position) ==
    LET cy == height \div 2
        cx == IF position = "left" THEN width \div 3
              ELSE IF position = "right" THEN (width * 68) \div 100 ELSE width \div 2
        a  == width \div 16
        b  == height \div 20
    IN  {p \in Px(width, height) :
            /\ Abs(p[1] - cx) <= a /\ 0 <= p[2] - cy /\ p[2] - cy <= b
            /\ b * b * (p[1] - cx) * (p[1] - cx) + a * a * (p[2] - cy) * (p[2] - cy)
                   <= a * a * b * b}

\* _scale_mask with scale_y = 1: nearest-neighbour resize to int(w * scale_x)
\* columns (scale in percent), pasted centred into a mask of the original size
ScaleMask(mask, scale_x, w, h) ==
    Let((w * scale_x) \div 100, LAMBDA new_w :
    Let((w \div 2) - (new_w \div 2), LAMBDA start :
    Let(Max2(0, start), LAMBDA p1 :
    Let(Min2(p1 + new_w, w), LAMBDA p2 :
    Let(Max2(0, 0 - start), LAMBDA s1 :
        {p \in Px(w, h) :
            /\ p1 <= p[1] /\ p[1] < p2
            /\ <<Min2(((p[1] - p1 + s1) * w) \div new_w, w - 1), p[2]>> \in mask})))))

\* _shift_mask: int(shift_cm * dpi / 2.54) pixels down
ShiftMask(mask, shift_pixels, w, h) ==
    {p \in Px(w, h) : <<p[1], p[2] - shift_pixels>> \in mask}

\* _apply_region_overlay: what it blends onto the image (nothing for an empty mask)
ApplyRegionOverlay(mask, region_id, shift_pixels, scale_x, w, h) ==
    Let(IF scale_x # 100 THEN ScaleMask(mask, scale_x, w, h) ELSE mask, LAMBDA m1 :
    Let(IF shift_pixels > 0 THEN ShiftMask(m1, shift_pixels, w, h) ELSE m1, LAMBDA m2 :
        IF m2 = {} THEN <<>> ELSE <<[op |-> "overlay", region |-> region_id, mask |-> m2]>>))

\* _draw_region_number: the number it stamps at the centroid of the largest contour
DrawRegionNumber(mask, region_number, shift_pixels, w, h, order) ==
    IF mask = {} THEN <<>>
    ELSE
    Let(IF shift_pixels > 0 THEN ShiftMask(mask, shift_pixels, w, h) ELSE mask, LAMBDA m :
    Let(FindContours(m, w, h, order), LAMBDA cs :
        IF cs = <<>> THEN <<>>
        ELSE Let(LargestContour(cs).pts, LAMBDA largest :
                 IF ContourArea2(largest) = 0 THEN <<>>
                 ELSE <<[op |-> "number", region |-> region_number,
                         mask |-> {ComputeCentroid(largest)}]>>)))

\* a pass that records, for the under-eye regions, the contour of the region's
\* own mask
AdditionalRegionOwnContour(smap, potential_colors, i, cfg, order) ==
    Let(CreateCleanMask(smap, potential_colors[i + 1]), LAMBDA mask :
        IF Cardinality(mask) < cfg.min_region_area \/ i \notin {2, 3, 4}
        THEN [drawn |-> <<>>, regions_data |-> <<>>]
        ELSE Let(ExtractContourPoints(mask, smap.w, smap.h, order), LAMBDA pts :
                 [ drawn |-> <<>>,
                   regions_data |-> IF pts # <<>> THEN << <<IF i = 4 THEN 5 ELSE i, pts>> >>
                                    ELSE <<>> ]))

\* the pass of the nose writes the region id of the chin
AdditionalRegionNoseAsChin(smap, potential_colors, i, cfg, order) ==
    Let(CreateCleanMask(smap, potential_colors[i + 1]), LAMBDA mask :
        IF Cardinality(mask) < cfg.min_region_area
        THEN [drawn |-> <<>>, regions_data |-> <<>>]
        ELSE IF i = 4
        THEN Let(ExtractContourPoints(mask, smap.w, smap.h, order), LAMBDA pts :
                 [ drawn |-> ApplyRegionOverlay(mask, 4, 0, 100, smap.w, smap.h)
                             \o DrawRegionNumber(mask, 4, 0, smap.w, smap.h, order),
                   regions_data |-> IF pts # <<>> THEN << <<4, pts>> >> ELSE <<>> ])
        ELSE IF i \in {2, 3}
        THEN Let(DrawUShapedEyeMask(smap.w, smap.h, IF i = 2 THEN "left" ELSE "right"), LAMBDA u :
             Let(ExtractContourPoints(u, smap.w, smap.h, order), LAMBDA pts :
                 [ drawn |-> ApplyRegionOverlay(mask, i, 45, 120, smap.w, smap.h)
                             \o DrawRegionNumber(mask, i, 45, smap.w, smap.h, order),
                   regions_data |-> IF pts # <<>> THEN << <<i, pts>> >> ELSE <<>> ]))
        ELSE [drawn |-> <<>>, regions_data |-> <<>>])

\* one pass of the loop of _process_additional_regions, for the potential
\* colour of index i (from 0): index 4 is the nose (region 5), indices 2 and 3
\* the under-eye regions
AdditionalRegion(smap, potential_colors, i, cfg, order) ==
    Let(CreateCleanMask(smap, potential_colors[i + 1]), LAMBDA mask :
        IF Cardinality(mask) < cfg.min_region_area
        THEN [drawn |-> <<>>, regions_data |-> <<>>]
        ELSE IF i = 4
        THEN Let(ExtractContourPoints(mask, smap.w, smap.h, order), LAMBDA pts :
                 [ drawn |-> ApplyRegionOverlay(mask, 5, 0, 100, smap.w, smap.h)
                             \o DrawRegionNumber(mask, 5, 0, smap.w, smap.h, order),
                   regions_data |-> IF pts # <<>> THEN << <<5, pts>> >> ELSE <<>> ])
        ELSE IF i \in {2, 3}
        THEN Let(DrawUShapedEyeMask(smap.w, smap.h, IF i = 2 THEN "left" ELSE "right"), LAMBDA u :
             Let(ExtractContourPoints(u, smap.w, smap.h, order), LAMBDA pts :
                 [ drawn |-> ApplyRegionOverlay(mask, i, 45, 120, smap.w, smap.h)
                             \o DrawRegionNumber(mask, i, 45, smap.w, smap.h, order),
                   regions_data |-> IF pts # <<>> THEN << <<i, pts>> >> ELSE <<>> ]))
        ELSE [drawn |-> <<>>, regions_data |-> <<>>])

RECURSIVE ConcatField(_, _, _)
ConcatField(parts, field, i) ==
    IF i > Len(parts) THEN <<>> ELSE parts[i][field] \o ConcatField(parts, field, i + 1)

\* _process_additional_regions: the passes over the potential colours in order
ProcessAdditionalRegions(smap, potential_colors, cfg, order) ==
    Let([k \in 1 .. Len(potential_colors) |->
            AdditionalRegion(smap, potential_colors, k - 1, cfg, order)] \o <<>>, LAMBDA parts :
        [ drawn        |-> ConcatField(parts, "drawn", 1),
          regions_data |-> ConcatField(parts, "regions_data", 1) ])

\* contours[region_id] = contour_points on a Python list, after padding it
\* with empty lists up to that index
ListStore(items, region_id, contour_points) ==
    [i \in 1 .. Max2(Len(items), region_id + 1) |->
        IF i = region_id + 1 THEN contour_points
        ELSE IF i <= Len(items) THEN items[i] ELSE <<>>] \o <<>>

(***************************************************************************)
(* The inputs of the model.                                                *)
(***************************************************************************)
Rect(x0, y0, x1, y1) == (x0 .. x1) \X (y0 .. y1)
\* a segmentation map of the image's size: colour i on the i-th layer, else black
SegMap(layers) ==
    [ w |-> GridW, h |-> GridH,
      px |-> [p \in Px(GridW, GridH) |->
                IF \E i \in 1 .. Len(layers) : p \in layers[i]
                THEN CHOOSE i \in 1 .. Len(layers) :
                        p \in layers[i] /\ \A j \in 1 .. i - 1 : p \notin layers[j]
                ELSE 0] ]
\* the same map at k times the resolution
Upsampled(seg, k) ==
    [ w |-> seg.w * k, h |-> seg.h * k,
      px |-> [p \in Px(seg.w * k, seg.h * k) |-> seg.px[<<p[1] \div k, p[2] \div k>>]] ]
\* the filled disc of radius r around (cx, cy)
Disc(cx, cy, r) ==
    {p \in Px(GridW, GridH) : (p[1] - cx) * (p[1] - cx) + (p[2] - cy) * (p[2] - cy) <= r * r}
FaceShapes ==
    { <<{}>>,
      <<Disc(6, 6, 6)>>,
      <<{<<6, 6>>}>>,
      <<Rect(3, 4, 9, 8)>>,
      <<Rect(4, 0, 8, 12) \cup Rect(0, 4, 12, 8)>>,
      <<Rect(4, 2, 8, 10) \cup Rect(2, 4, 10, 8)>>,
      <<Rect(0, 5, 12, 12), Rect(0, 0, 12, 3)>>,
      <<Rect(3, 0, 9, 3) \cup Rect(3, 9, 9, 12)>>,
      <<Rect(0, 5, 12, 12), {<<0, 4>>}, {<<3, 4>>}, {<<6, 4>>}, {<<9, 4>>}, Rect(0, 0, 12, 3)>> }
SegMaps == {SegMap(f) : f \in FaceShapes} \cup {Upsampled(SegMap(f), 2) : f \in FaceShapes}
Configs ==
    { DefaultConfig,
      [DefaultConfig EXCEPT !.ear_min_width = 2],
      [DefaultConfig EXCEPT !.ear_min_width = 2, !.min_region_area = 0],
      [DefaultConfig EXCEPT !.ear_min_width = 2, !.min_region_area = 3],
      [DefaultConfig EXCEPT !.ear_min_width = 2, !.forehead_height_ratio = 50] }
\* landmark lists of 0, 2, 68 and 468 points with level eyes
LandmarkLists ==
    { [n |-> n, leftEye |-> <<2, 3>>, rightEye |-> <<10, 3>>, lo |-> <<1, 1>>, hi |-> <<11, 11>>] :
        n \in {0, 2, 68, 468} }

\* contours as lists of points
Square   == << <<0, 0>>, <<2, 0>>, <<2, 2>>, <<0, 2>> >>
Triangle == << <<1, 1>>, <<4, 1>>, <<1, 4>> >>
Segment  == << <<0, 0>>, <<2, 0>> >>
Collinear == << <<0, 0>>, <<1, 1>>, <<5, 5>> >>
Shape(items) == [kind |-> "tuple", items |-> items]
Dict(items) == [kind |-> "dict", items |-> items]
List(items) == [kind |-> "list", items |-> items]
NoShape == [kind |-> "none", items |-> <<>>]
ImageShapes ==
    { NoShape, Shape(<<>>), Shape(<<4>>), Shape(<<4, 6, 3>>), Shape(<<0, 6>>), Shape(<<4, -1>>),
      Shape(<<4, 6>>), Shape(<<GridH, GridW>>) }
ContourMaps ==
    { Dict(<<>>),
      Dict(<< <<1, Square>> >>),
      Dict(<< <<1, Square>>, <<2, Segment>>, <<3, <<>> >> >>),
      Dict(<< <<4, Triangle>>, <<9, Square>> >>),
      Dict(<< <<0, Triangle>> >>),
      Dict(<< <<4, Collinear>>, <<7, Collinear>>, <<5, Reverse(Triangle)>> >>) }
ContourLists == { List(<<>>), List(<< <<>>, Square >>), List(<< Triangle, Segment, Square >>) }
ContourCollections == ContourMaps \cup ContourLists \cup {[kind |-> "tuple", items |-> <<>>]}
Images == {"none", "image"}
StyleConfigs == {"default", "colorful", "minimal"}
\* the arguments the callers of SVGGenerator.generate hold
GenArgs ==
    [ image_shape     : {NoShape, Shape(<<4, 6>>)},
      contours        : {Dict(<< <<1, Square>> >>),
                         Dict(<< <<1, Square>>, <<2, Segment>>, <<3, <<>> >> >>),
                         Dict(<< <<4, Triangle>>, <<9, Square>> >>)},
      processed_image : Images ]

(***************************************************************************)
(* The state.                                                              *)
(*  process_image run: pc is the step the run is at, inp the arguments     *)
(*  (landmarks, image shape, segmentation map, config, contour order of    *)
(*  the OpenCV build), seg the working segmentation map, maskWork the mask *)
(*  operations performed so far, region1 the cleaned main-face mask, sub   *)
(*  the subdivisions, idx the next subdivision, contours the contour       *)
(*  collection, drawn the overlays and numbers drawn on the result image,  *)
(*  ret the outcome of the run.                                            *)
(*  generator: style the style configurations of the SVGGenerator and of   *)
(*  the ImageGenerator; args the caller's argument objects; ref and last   *)
(*  the first and the latest call of generate, with their results.         *)
(*  call: a call of a stateless function, with its result.                 *)
(***************************************************************************)
VARIABLES pc, inp, seg, maskWork, region1, sub, idx, contours, drawn, ret,
          style, args, ref, last, call,
          parArgs, parpc, futures, joined, results,
          clients, database, cached, jobWrites, cacheWrites, tasks, responses,
          cacheTable, jobTable, metricsTable, sessions, nextId,
          refreshTokens, clock, refreshes, revocations, issued

pipeVars == <<pc, inp, seg, maskWork, region1, sub, idx, contours, drawn, ret>>
genVars  == <<style, args, ref, last>>
parVars  == <<parArgs, parpc, futures, joined, results>>
jobVars  == <<clients, database, cached, jobWrites, cacheWrites, tasks, responses>>
authVars == <<refreshTokens, clock, refreshes, revocations, issued>>
dbVars   == <<cacheTable, jobTable, metricsTable, sessions, nextId, authVars>>
svcVars  == <<parVars, jobVars, dbVars>>
vars     == <<pc, inp, seg, maskWork, region1, sub, idx, contours, drawn, ret,
              style, args, ref, last, call, parArgs, parpc, futures, joined, results,
              clients, database, cached, jobWrites, cacheWrites, tasks, responses,
              cacheTable, jobTable, metricsTable, sessions, nextId,
              refreshTokens, clock, refreshes, revocations, issued>>

NoCall   == [op |-> "none"]
NoArgs   == [image_shape |-> [kind |-> "none", items |-> <<>>],
             contours |-> [kind |-> "dict", items |-> <<>>], processed_image |-> "none"]
NoRecord == [generator |-> "none"]
Running  == [status |-> "running", error |-> "", value |-> NoDocument]
Raised(e) == [status |-> "raised", error |-> e, value |-> NoDocument]

PipeIdle ==
    /\ pc = "idle" /\ inp = [lm |-> [n |-> 0]] /\ seg = [w |-> 0, h |-> 0]
    /\ maskWork = {} /\ region1 = {} /\ sub = <<>> /\ idx = 0
    /\ contours = [kind |-> "list", items |-> <<>>] /\ drawn = <<>> /\ ret = Running
GenIdle ==
    /\ style = [generator |-> "default", image_generator |-> "default"]
    /\ args = NoArgs /\ ref = NoRecord /\ last = NoRecord
ParIdle ==
    /\ parArgs = [region_ids |-> <<>>] /\ parpc = "idle" /\ futures = <<>> /\ joined = 0
    /\ results = <<>>
JobIdle ==
    /\ clients = [postgres_client |-> "None", perceptual_hash_cache |-> "None"]
    /\ database = "up"
    /\ cached = [kind |-> "none"]
    /\ jobWrites = <<>> /\ cacheWrites = <<>> /\ tasks = <<>> /\ responses = <<>>
AuthIdle ==
    /\ refreshTokens = {} /\ clock = 0 /\ refreshes = <<>> /\ revocations = {} /\ issued = {}
DbIdle ==
    /\ cacheTable = {} /\ jobTable = {} /\ metricsTable = {}
    /\ sessions = <<>> /\ nextId = 1
    /\ AuthIdle
SvcIdle == ParIdle /\ JobIdle /\ DbIdle

\* process_image is entered with its arguments decoded
Init ==
    /\ pc = "process_image"
    /\ inp \in [lm : LandmarkLists, image_shape : {<<GridH, GridW>>}, seg : SegMaps,
                cfg : Configs, order : {"scan", "reverse"}]
    /\ seg = inp.seg
    /\ maskWork = {} /\ region1 = {} /\ sub = <<>> /\ idx = 0
    /\ contours = [kind |-> "list", items |-> <<>>] /\ drawn = <<>> /\ ret = Running
    /\ GenIdle /\ call = NoCall /\ SvcIdle

\* process_image, the landmark check
CheckLandmarks ==
    /\ pc = "process_image"
    /\ IF inp.lm.n = 0
       THEN /\ pc' = "done"
            /\ ret' = Raised("ValueError: No face detected in the image")
       ELSE /\ pc' = "prepare_images"
            /\ ret' = ret
    /\ UNCHANGED <<inp, seg, maskWork, region1, sub, idx, contours, drawn, genVars, call, svcVars>>

\* _prepare_images
PrepareImagesStep ==
    /\ pc = "prepare_images"
    /\ \E prepared \in {Val(PrepareImages(inp.image_shape, seg))} : seg' = prepared
    /\ maskWork' = IF <<seg.h, seg.w>> # inp.image_shape THEN maskWork \cup {"resize"}
                   ELSE maskWork
    /\ pc' = "apply_rotation_and_crop"
    /\ UNCHANGED <<inp, region1, sub, idx, contours, drawn, ret, genVars, call, svcVars>>

\* _apply_rotation_and_crop: rotate_and_crop_face, then the same rotation and
\* crop on the segmentation map.  The landmark lists of the model have level
\* eyes, so rot_mat is the identity and warpAffine copies the map.
ApplyRotationAndCrop ==
    /\ pc = "apply_rotation_and_crop"
    /\ \E r \in {Val(RotateAndCropFace(inp.lm, inp.image_shape))} :
           IF ~r.ok
           THEN /\ pc' = "done"
                /\ ret' = Raised(r.error)
                /\ UNCHANGED <<seg, maskWork>>
           ELSE /\ r.level
                /\ \E cropped \in {Val(CropSeg(seg, r.crop_box))} : seg' = cropped
                /\ maskWork' = maskWork \cup {"warp", "crop"}
                /\ pc' = "find_main_face"
                /\ ret' = ret
    /\ UNCHANGED <<inp, region1, sub, idx, contours, drawn, genVars, call, svcVars>>

\* _process_subdivided_regions up to the main-face mask: the first non-black
\* colour is the main face; without one the method returns the pair
\* (result_image, contours) instead of the contour list
FindMainFace ==
    /\ pc = "find_main_face"
    /\ \E unique_colors \in {Val(GetUniqueColors(seg))} :
       \E non_black \in {SelectSeq(unique_colors, LAMBDA c : c # 0)} :
           IF non_black = <<>>
           THEN /\ contours' = [kind |-> "tuple", items |-> <<>>]
                /\ pc' = "create_document"
                /\ UNCHANGED <<region1, maskWork>>
           ELSE /\ \E mask \in {Val(CreateCleanMask(seg, non_black[1]))} : region1' = mask
                /\ maskWork' = maskWork \cup {"isolate", "morphology"}
                /\ pc' = "subdivide"
                /\ UNCHANGED contours
    /\ UNCHANGED <<inp, seg, sub, idx, drawn, ret, genVars, call, svcVars>>

\* _subdivide_main_face_region; _calculate_face_boundaries raises when the
\* mask has no contour
SubdivideMain ==
    /\ pc = "subdivide"
    /\ \E a \in {Val(AnalyzeFaceContour(region1, seg.w, seg.h, inp.order))} :
           IF ~a.found
           THEN /\ pc' = "done"
                /\ ret' = Raised("ValueError: No face contour found")
                /\ UNCHANGED <<sub, idx>>
           ELSE /\ \E s \in {Val(SubdivideMainFaceRegion(region1, a.bbox, inp.cfg, seg.w, seg.h,
                                                         inp.order))} :
                       sub' = s.subdivisions
                /\ idx' = 1
                /\ pc' = "subdivisions"
                /\ ret' = ret
    /\ UNCHANGED <<inp, seg, maskWork, region1, contours, drawn, genVars, call, svcVars>>

\* one pass of the loop over the subdivisions
ProcessSubdivision ==
    /\ pc = "subdivisions"
    /\ idx <= Len(sub)
    /\ \E mask \in {sub[idx].mask}, region_id \in {sub[idx].region} :
           IF Cardinality(mask) < inp.cfg.min_region_area
           THEN UNCHANGED <<contours, drawn>>
           ELSE \E pts \in {Val(ExtractContourPoints(mask, seg.w, seg.h, inp.order))} :
                \E marks \in {Val(ApplyRegionOverlay(mask, region_id, 0, 100, seg.w, seg.h)
                                  \o DrawRegionNumber(mask, region_id, 0, seg.w, seg.h,
                                                      inp.order))} :
                /\ drawn' = drawn \o marks
                /\ contours' = IF pts # <<>>
                               THEN [contours EXCEPT !.items = ListStore(@, region_id, pts)]
                               ELSE contours
    /\ idx' = idx + 1
    /\ pc' = IF idx = Len(sub) THEN "additional_regions" ELSE pc
    /\ UNCHANGED <<inp, seg, maskWork, region1, sub, ret, genVars, call, svcVars>>

\* the contours list after merging the additional regions into it
RECURSIVE MergeRegions(_, _, _)
MergeRegions(items, regions_data, i) ==
    IF i > Len(regions_data) THEN items
    ELSE Let(ListStore(items, regions_data[i][1], regions_data[i][2]),
             LAMBDA stored : MergeRegions(stored, regions_data, i + 1))

\* _process_additional_regions and the merge of its regions into the list
ProcessAdditional ==
    /\ pc = "additional_regions"
    /\ \E unique_colors \in {Val(GetUniqueColors(seg))} :
       \E non_black \in {SelectSeq(unique_colors, LAMBDA c : c # 0)} :
       \E potential \in {SelectSeq(non_black, LAMBDA c : c # non_black[1])} :
       \E r \in {Val(ProcessAdditionalRegions(seg, potential, inp.cfg, inp.order))} :
       \E merged \in {Val(MergeRegions(contours.items, r.regions_data, 1))} :
           /\ drawn' = drawn \o r.drawn
           /\ contours' = [contours EXCEPT !.items = merged]
    /\ pc' = "create_document"
    /\ UNCHANGED <<inp, seg, maskWork, region1, sub, idx, ret, genVars, call, svcVars>>

\* the return statement of process_face_regions: the shape of the cropped
\* image, the collection, and the cropped image itself
ProcessFaceRegionsReturn ==
    [ image_shape |-> [kind |-> "tuple", items |-> <<seg.h, seg.w>>],
      contours    |-> contours,
      image       |-> "cropped_image" ]

\* the overlays and numbers an image of the run carries: result_image starts
\* as a copy of the cropped image and receives every mark, the cropped image
\* receives none
MarksOn(image) == IF image = "result_image" THEN drawn ELSE <<>>

\* process_image after process_face_regions has returned: the debug log of
\* the collection (an ndarray element has no truth value), then
\* ImageGenerator().create on the cropped image's shape and the collection
CreateDocument ==
    /\ pc = "create_document"
    /\ \E shape \in {ProcessFaceRegionsReturn.image_shape},
          processed_image \in {ProcessFaceRegionsReturn.image} :
       \E r \in {Val(CreateApp(shape, contours, processed_image))} :
           ret' = IF contours.kind = "tuple"
                  THEN Raised("ValueError: The truth value of an array is ambiguous")
                  ELSE IF r.ok
                  THEN [status |-> "returned", error |-> "", value |-> r.value]
                  ELSE Raised(r.error)
    /\ pc' = "done"
    /\ UNCHANGED <<inp, seg, maskWork, region1, sub, idx, contours, drawn, genVars, call, svcVars>>

Next ==
    \/ CheckLandmarks
    \/ PrepareImagesStep
    \/ ApplyRotationAndCrop
    \/ FindMainFace
    \/ SubdivideMain
    \/ ProcessSubdivision
    \/ ProcessAdditional
    \/ CreateDocument

Spec == Init /\ [][Next]_vars

(***************************************************************************)
(* The SVGGenerator of src/facial and its callers.                         *)
(***************************************************************************)
InitGen ==
    /\ PipeIdle /\ call = NoCall /\ SvcIdle
    /\ style = [generator |-> "default", image_generator |-> "default"]
    /\ args \in GenArgs
    /\ ref = NoRecord /\ last = NoRecord

\* what is known of a generate call: its arguments, the generator's style
\* configuration at the call, its result, and whether it was the first call
CallRecord(a, style_config, result, first) ==
    [ generator |-> "facial", first |-> first, image_shape |-> a.image_shape,
      contours |-> a.contours, processed_image |-> a.processed_image,
      style |-> style_config, result |-> result ]

\* generate rendering with the style it cached at the previous call
CallGenerateCachedStyle ==
    /\ \E used \in {IF last = NoRecord THEN style.generator ELSE last.style} :
       \E r \in {Val(Generate(args.image_shape, args.contours, args.processed_image, used))} :
       \E rec \in {CallRecord(args, style.generator, r, ref = NoRecord)} :
           /\ last' = rec
           /\ ref' = IF ref = NoRecord THEN rec ELSE ref
    /\ UNCHANGED <<args, style, pipeVars, call, svcVars>>

\* SVGGenerator.generate(image_shape, contours, processed_image)
CallGenerate ==
    /\ \E r \in {Val(Generate(args.image_shape, args.contours, args.processed_image,
                              style.generator))} :
       \E rec \in {CallRecord(args, style.generator, r, ref = NoRecord)} :
           /\ last' = rec
           /\ ref' = IF ref = NoRecord THEN rec ELSE ref
    /\ UNCHANGED <<args, style, pipeVars, call, svcVars>>

\* ImageGenerator.create of src/facial, which calls generate on valid input
CallCreate ==
    /\ \E c \in {Val(Create(args.image_shape, args.contours, args.processed_image,
                            style.generator))} :
           IF c.invoked
           THEN \E rec \in {CallRecord(args, style.generator,
                                       [ok |-> c.ok, value |-> c.value, error |-> c.error],
                                       ref = NoRecord)} :
                    /\ last' = rec
                    /\ ref' = IF ref = NoRecord THEN rec ELSE ref
           ELSE UNCHANGED <<ref, last>>
    /\ UNCHANGED <<args, style, pipeVars, call, svcVars>>

\* SVGGenerator.set_style_config
SetStyleConfig ==
    /\ \E s \in StyleConfigs : style' = [style EXCEPT !.generator = s]
    /\ UNCHANGED <<args, ref, last, pipeVars, call, svcVars>>

\* the caller builds the arguments of its next call
NewArgs ==
    /\ \E a \in GenArgs : args' = a
    /\ UNCHANGED <<style, ref, last, pipeVars, call, svcVars>>

NextGen ==
    \/ CallGenerate
    \/ CallCreate
    \/ SetStyleConfig
    \/ NewArgs

SpecGen == InitGen /\ [][NextGen]_vars

(***************************************************************************)
(* The stateless functions, each applied once to arguments of its domain.  *)
(***************************************************************************)
\* landmark lists around the lengths the eye lookups depend on, level and tilted
EyeLandmarkLists ==
    { [n |-> n, leftEye |-> <<2, 3>>, rightEye |-> <<10, y>>, lo |-> <<1, 1>>, hi |-> <<11, 11>>] :
        n \in {0, 2, 36, 37, 42, 43, 48, 68, 362, 363, 468}, y \in {3, 5} }

\* SegmentationConfig: overlay_alpha in percent, dot_spacing, dot_radius
OverlayAlpha == 10
DotSpacing   == 8
DotRadius    == 2

\* one channel of cv2.addWeighted(src1, alpha, src2, beta, 0) on uint8 values,
\* alpha and beta in percent: rounded to the nearest integer and saturated
AddWeighted(src1, alpha, src2, beta) ==
    Min2(255, (2 * (src1 * alpha + src2 * beta) + 100) \div 200)

\* the mask _apply_region_overlay blends through: scaled, then shifted
OverlayMask(mask, shift_pixels, scale_x, w, h) ==
    Let(IF scale_x # 100 THEN ScaleMask(mask, scale_x, w, h) ELSE mask, LAMBDA m1 :
        IF shift_pixels > 0 THEN ShiftMask(m1, shift_pixels, w, h) ELSE m1)

\* _create_dotted_pattern, one channel: a filled circle of dot_radius at every
\* dot_spacing-th pixel of the mask
CreateDottedPattern(mask, color, w, h) ==
    [p \in Px(w, h) |->
        IF \E q \in mask :
              /\ q[1] % DotSpacing = 0 /\ q[2] % DotSpacing = 0
              /\ (p[1] - q[1]) * (p[1] - q[1]) + (p[2] - q[2]) * (p[2] - q[2])
                    <= DotRadius * DotRadius + 1
        THEN color ELSE 0]

\* _apply_region_overlay on one channel of the image: the pixels of the image
\* it returns.  Dotted mode weights image and pattern by mask / 255 and
\* truncates; flat mode is cv2.addWeighted of the image with weight
\* 1 - overlay_alpha and of the colour layer with weight overlay_alpha + 0.2.
ApplyRegionOverlayPixels(image, mask, color, is_dotted, shift_pixels, scale_x, w, h) ==
    Let(OverlayMask(mask, shift_pixels, scale_x, w, h), LAMBDA m :
        IF m = {} THEN image
        ELSE IF is_dotted
        THEN Let(CreateDottedPattern(m, color, w, h), LAMBDA overlay :
                 [p \in Px(w, h) |->
                     Let(IF p \in m THEN 1 ELSE 0, LAMBDA mask_3d :
                         (image[p] * (100 - mask_3d * OverlayAlpha)
                            + overlay[p] * mask_3d * OverlayAlpha) \div 100)])
        ELSE [p \in Px(w, h) |->
                 AddWeighted(image[p], 100 - OverlayAlpha,
                             IF p \in m THEN color ELSE 0, OverlayAlpha + 20)])

\* images of one channel and region masks for the overlay
OverlayImages ==
    { [p \in Px(GridW, GridH) |-> 1], [p \in Px(GridW, GridH) |-> 102],
      [p \in Px(GridW, GridH) |-> IF p[1] < 6 THEN 254 ELSE 102] }
OverlayMasks == { {}, Rect(3, 4, 9, 8), Rect(0, 0, 12, 3), {<<0, 0>>, <<8, 8>>} }

\* the arrays of a run of the region loop, by identity: the image the caller
\* passed in, the copy _process_subdivided_regions makes of it, and the array
\* each blending overlay creates
OriginalImage == <<"original_image", 0>>
ImageCopy     == <<"original_image.copy()", 0>>
OverlayResult(k) == <<"overlay", k>>

\* an initial result_image that is the caller's array itself
InitialResultImageAliased == OriginalImage

\* result_image = original_image.copy()
InitialResultImage == ImageCopy

\* shift_cm = 1.2 at 96 dpi, int(1.2 * 96 / 2.54), and scale_x = 1.2 in percent
ShiftPixels == 45
ScaleX      == 120

\* one pass of a region loop over result_image: _apply_region_overlay returns
\* the array it was given for an empty mask and a new array otherwise, then
\* _draw_region_number stamps the number into the array it is given
RegionPass(state, pass, w, h, order) ==
    Let(OverlayMask(pass.mask, pass.shift, pass.scale, w, h), LAMBDA m :
    Let(IF m = {} THEN state.result_image ELSE OverlayResult(state.made + 1), LAMBDA image :
    Let(DrawRegionNumber(pass.mask, pass.region, pass.shift, w, h, order), LAMBDA number :
        [ result_image |-> image,
          made         |-> IF m = {} THEN state.made ELSE state.made + 1,
          written      |-> state.written \cup (IF number # <<>> THEN {image} ELSE {}),
          unchanged    |-> state.unchanged \o <<m = {}>> ])))

RECURSIVE RegionPasses(_, _, _, _, _, _)
RegionPasses(state, passes, i, w, h, order) ==
    IF i > Len(passes) THEN state
    ELSE Let(RegionPass(state, passes[i], w, h, order), LAMBDA next :
             RegionPasses(next, passes, i + 1, w, h, order))

\* the loops of _process_subdivided_regions and _process_additional_regions
\* over the regions that reach min_region_area
DrawRegions(passes, w, h, order) ==
    RegionPasses([result_image |-> InitialResultImage, made |-> 0, written |-> {},
                  unchanged |-> <<>>], passes, 1, w, h, order)

\* region masks on the strip: a block on the right edge, which the widening
\* by scale_x pushes out of the image, and a block in the middle
EdgeBlock   == Rect(StripW - 2, 0, StripW - 1, 2)
CentreBlock == Rect(8, 1, 11, 3)
Passes ==
    { [mask |-> m, region |-> 1, shift |-> 0, scale |-> 100] : m \in {EdgeBlock, CentreBlock} }
    \cup { [mask |-> m, region |-> r, shift |-> ShiftPixels, scale |-> ScaleX] :
              m \in {EdgeBlock, CentreBlock, {<<0, StripH - 1>>}}, r \in {2, 3} }
PassLists == { <<a>> : a \in Passes } \cup { <<a, b>> : a \in Passes, b \in Passes }

\* segmentation maps of the strip's size: a face block, two small regions, and
\* the regions of potential-colour index 2 and 3 in different places
StripMap(layers) ==
    [ w |-> StripW, h |-> StripH,
      px |-> [p \in Px(StripW, StripH) |->
                IF \E i \in 1 .. Len(layers) : p \in layers[i]
                THEN CHOOSE i \in 1 .. Len(layers) :
                        p \in layers[i] /\ \A j \in 1 .. i - 1 : p \notin layers[j]
                ELSE 0] ]
StripMaps ==
    { StripMap(<<{<<0, 0>>}, {<<2, 0>>}, {<<4, 0>>}, Rect(6, 10, 12, 18), Rect(2, 30, 8, 36)>>),
      StripMap(<<{<<0, 0>>}, {<<2, 0>>}, {<<4, 0>>}, Rect(10, 38, 17, 47), Rect(11, 3, 18, 9)>>),
      StripMap(<<{<<0, 0>>}, {<<2, 0>>}, {<<4, 0>>}, {<<9, 9>>}, Rect(0, 20, 19, 29)>>) }

InitUnit == PipeIdle /\ GenIdle /\ call = NoCall /\ SvcIdle

\* ImageGenerator.create of src/facial
ApplyCreate ==
    /\ call = NoCall
    /\ \E sh \in ImageShapes, c \in ContourCollections, im \in Images, st \in StyleConfigs :
           call' = [op |-> "create", image_shape |-> sh, contours |-> c, processed_image |-> im,
                    style |-> st, result |-> Val(Create(sh, c, im, st))]
    /\ UNCHANGED <<pipeVars, genVars, svcVars>>

\* ImageGenerator.create of src/app
ApplyCreateApp ==
    /\ call = NoCall
    /\ \E sh \in ImageShapes, c \in ContourCollections, im \in Images :
           call' = [op |-> "create_app", image_shape |-> sh, contours |-> c,
                    processed_image |-> im, style |-> "default",
                    result |-> Val(CreateApp(sh, c, im))]
    /\ UNCHANGED <<pipeVars, genVars, svcVars>>

\* SVGGenerator.generate of src/facial
ApplyGenerate ==
    /\ call = NoCall
    /\ \E sh \in ImageShapes, c \in ContourMaps \cup ContourLists, im \in Images,
          st \in StyleConfigs :
           call' = [op |-> "generate", image_shape |-> sh, contours |-> c, processed_image |-> im,
                    style |-> st, result |-> Val(Generate(sh, c, im, st))]
    /\ UNCHANGED <<pipeVars, genVars, svcVars>>

\* SVGGenerator.generate of src/app
ApplyGenerateApp ==
    /\ call = NoCall
    /\ \E sh \in ImageShapes, c \in ContourMaps \cup ContourLists, im \in Images :
           call' = [op |-> "generate_app", image_shape |-> sh, contours |-> c,
                    processed_image |-> im, style |-> "default",
                    result |-> Val(GenerateApp(sh, c, im))]
    /\ UNCHANGED <<pipeVars, genVars, svcVars>>

\* autorotate_face
ApplyAutorotateFace ==
    /\ call = NoCall
    /\ \E lm \in EyeLandmarkLists :
           call' = [op |-> "autorotate_face", landmarks |-> lm, result |-> AutorotateFace(lm)]
    /\ UNCHANGED <<pipeVars, genVars, svcVars>>

\* rotate_and_crop_face
ApplyRotateAndCropFace ==
    /\ call = NoCall
    /\ \E lm \in EyeLandmarkLists :
           call' = [op |-> "rotate_and_crop_face", landmarks |-> lm,
                    result |-> Val(RotateAndCropFace(lm, <<GridH, GridW>>))]
    /\ UNCHANGED <<pipeVars, genVars, svcVars>>

\* _subdivide_main_face_region on the cleaned mask of a segmentation map
ApplySubdivide ==
    /\ call = NoCall
    /\ \E f \in FaceShapes, cfg \in Configs, order \in {"scan", "reverse"} :
       \E mask \in {Val(CreateCleanMask(SegMap(f), 1))} :
       \E a \in {Val(AnalyzeFaceContour(mask, GridW, GridH, order))} :
           call' = [op |-> "subdivide", mask |-> mask, cfg |-> cfg, order |-> order,
                    result |->
                        IF ~a.found
                        THEN [ok |-> FALSE, error |-> "ValueError: No face contour found"]
                        ELSE [ok |-> TRUE, error |-> "",
                              value |-> Val(SubdivideMainFaceRegion(mask, a.bbox, cfg,
                                                                    GridW, GridH, order))]]
    /\ UNCHANGED <<pipeVars, genVars, svcVars>>

\* _apply_region_overlay
ApplyOverlay ==
    /\ call = NoCall
    /\ \E image \in OverlayImages, mask \in OverlayMasks, color \in {0, 255},
          is_dotted \in BOOLEAN, t \in {<<0, 100>>, <<2, 120>>} :
           call' = [op |-> "apply_region_overlay", image |-> image,
                    mask |-> Val(OverlayMask(mask, t[1], t[2], GridW, GridH)),
                    color |-> color, is_dotted |-> is_dotted,
                    result |-> Val(ApplyRegionOverlayPixels(image, mask, color, is_dotted,
                                                            t[1], t[2], GridW, GridH))]
    /\ UNCHANGED <<pipeVars, genVars, svcVars>>

\* the region loops of _process_subdivided_regions on a fresh result_image
ApplyDrawRegions ==
    /\ call = NoCall
    /\ \E passes \in PassLists :
           call' = [op |-> "draw_regions", passes |-> passes,
                    result |-> Val(DrawRegions(passes, StripW, StripH, "scan"))]
    /\ UNCHANGED <<pipeVars, genVars, svcVars>>

\* one pass of _process_additional_regions for an under-eye region
ApplyAdditionalRegion ==
    /\ call = NoCall
    /\ \E smap \in StripMaps, i \in {2, 3}, cfg \in {DefaultConfig} :
       \E unique_colors \in {Val(GetUniqueColors(smap))} :
       \E potential \in {SelectSeq(unique_colors, LAMBDA c : c # 0 /\ c # 1)} :
           call' = [op |-> "additional_region", smap |-> smap, i |-> i,
                    area |-> Cardinality(CreateCleanMask(smap, potential[i + 1])),
                    result |-> Val(AdditionalRegion(smap, potential, i, cfg, "scan"))]
    /\ UNCHANGED <<pipeVars, genVars, svcVars>>

\* the photographs handed to the alignment functions
AlignW == 120
AlignH == 160

\* a Python slice bound i on an axis of n elements
SliceIndex(i, n) == IF i < 0 THEN Max2(i + n, 0) ELSE Min2(i, n)

\* rotated_image[y_start:y_end, x_start:x_end].  With the identity rotation an
\* image is the window of the photograph's pixels it shows: its corner x, y
\* and its extent w, h.
Cropped(image, box) ==
    LET xa == SliceIndex(box.x1, image.w)
        xb == SliceIndex(box.x2, image.w)
        ya == SliceIndex(box.y1, image.h)
        yb == SliceIndex(box.y2, image.h)
    IN  [ x |-> image.x + xa, y |-> image.y + ya,
          w |-> Max2(xb - xa, 0), h |-> Max2(yb - ya, 0) ]

\* the landmarks are left where they were
CroppedLandmarksUnshifted(lm, box) == lm

\* rotated_landmarks - [x_start, y_start]
CroppedLandmarks(lm, box) ==
    LET Shift(p) == <<p[1] - box.x1, p[2] - box.y1>>
    IN  [ n |-> lm.n, leftEye |-> Shift(lm.leftEye), rightEye |-> Shift(lm.rightEye),
          lo |-> Shift(lm.lo), hi |-> Shift(lm.hi) ]

\* the photograph itself
Photograph == [x |-> 0, y |-> 0, w |-> AlignW, h |-> AlignH]

\* 468 landmarks of a face of the photograph with level eyes: the eyes lie
\* inside it, the outermost landmarks inside, near the border or beyond it
AlignedLandmarkLists ==
    { [n |-> 468, leftEye |-> <<50, y>>, rightEye |-> <<70, y>>, lo |-> lo, hi |-> hi] :
        y \in {70, 90},
        lo \in { <<45, 60>>, <<10, 65>>, <<-5, 20>>, <<-40, 30>>, <<0, 0>> },
        hi \in { <<75, 100>>, <<110, 150>>, <<130, 170>>, <<119, 159>>, <<60, 240>> } }

\* rotate_and_crop_face: the cropped image and the cropped landmarks of a call
\* that found the eyes level
RotateAndCropFaceOutput(image, lm) ==
    Let(RotateAndCropFace(lm, <<image.h, image.w>>), LAMBDA r :
        [ level |-> r.level, crop_box |-> r.crop_box,
          cropped |-> Cropped(image, r.crop_box),
          cropped_landmarks |-> CroppedLandmarks(lm, r.crop_box) ])

\* rotate_and_crop_face applied to a photograph and then to its own output
ApplyRealign ==
    /\ call = NoCall
    /\ \E lm \in AlignedLandmarkLists :
       \E first \in {Val(RotateAndCropFaceOutput(Photograph, lm))} :
       \E second \in {Val(RotateAndCropFaceOutput(first.cropped, first.cropped_landmarks))} :
           call' = [op |-> "realign", landmarks |-> lm, first |-> first, second |-> second]
    /\ UNCHANGED <<pipeVars, genVars, svcVars>>

\* rotated landmarks: two corners of their bounding rectangle, inside the
\* photograph, across its border or away from it
RotatedPoints ==
    { <<-40, 30>>, <<-36, 34>>, <<50, 70>>, <<70, 110>>, <<200, 50>>, <<60, -90>>, <<60, 300>>,
      <<AlignW - 1, AlignH - 1>>, <<0, 0>> }

\* get_padded_bbox and the crop rotate_and_crop_face takes from its box
ApplyGetPaddedBbox ==
    /\ call = NoCall
    /\ \E p \in RotatedPoints, q \in RotatedPoints :
       \E box \in {Val(GetPaddedBbox({p, q}, <<AlignH, AlignW>>))} :
           call' = [op |-> "get_padded_bbox", points |-> {p, q}, crop_box |-> box,
                    cropped |-> Cropped(Photograph, box),
                    cropped_landmarks |-> {<<r[1] - box.x1, r[2] - box.y1>> : r \in {p, q}}]
    /\ UNCHANGED <<pipeVars, genVars, svcVars>>

NextUnit ==
    \/ ApplyCreate
    \/ ApplyCreateApp
    \/ ApplyGenerate
    \/ ApplyGenerateApp
    \/ ApplyAutorotateFace
    \/ ApplyRotateAndCropFace
    \/ ApplySubdivide
    \/ ApplyOverlay
    \/ ApplyDrawRegions
    \/ ApplyAdditionalRegion
    \/ ApplyRealign
    \/ ApplyGetPaddedBbox

SpecUnit == InitUnit /\ [][NextUnit]_vars

(***************************************************************************)
(* parallel_process_regions: the calling thread submits one process_region *)
(* task per region id to a ThreadPoolExecutor, then takes the futures'     *)
(* results in submission order and writes them to the results dict.  A     *)
(* future is "queued", "running" on a worker thread, or "done".            *)
(***************************************************************************)
\* cv2.GaussianBlur(binary_mask, (5, 5), 0) of a 0/255 mask, as the set of its
\* non-zero pixels: every kernel weight is at least 1/256 and 255/256 rounds to 1
GaussianBlur5(mask, w, h) ==
    {p \in Px(w, h) : \E q \in mask : Abs(p[1] - q[1]) <= 2 /\ Abs(p[2] - q[2]) <= 2}

\* optimize_contour_extraction with min_contour_area = 10
OptimizeContourExtraction(binary_mask, w, h, order) ==
    Let(FindContours(binary_mask, w, h, order), LAMBDA cs :
        [i \in 1 .. Len(SelectSeq(cs, LAMBDA c : ContourArea2(c.pts) >= 2 * 10)) |->
            SelectSeq(cs, LAMBDA c : ContourArea2(c.pts) >= 2 * 10)[i].pts] \o <<>>)

\* process_region(region_id) on the segmentation map
ProcessRegion(segmentation_map, region_id, order) ==
    Let({p \in Px(segmentation_map.w, segmentation_map.h) : segmentation_map.px[p] = region_id},
        LAMBDA binary_mask :
    Let(GaussianBlur5(binary_mask, segmentation_map.w, segmentation_map.h), LAMBDA blurred :
        OptimizeContourExtraction(blurred, segmentation_map.w, segmentation_map.h, order)))

\* results[region_id] = contours on a dict: a present key keeps its position
DictStore(items, key, value) ==
    IF \E i \in 1 .. Len(items) : items[i][1] = key
    THEN [i \in 1 .. Len(items) |-> IF items[i][1] = key THEN <<key, value>> ELSE items[i]] \o <<>>
    ELSE Append(items, <<key, value>>)

\* label maps: region 1 a blob, region 2 a corner pixel, region 3 two blobs
LabelMaps ==
    { SegMap(<<Rect(4, 4, 7, 8), {<<0, 0>>}, {<<11, 2>>, <<2, 11>>}>>),
      SegMap(<<{<<6, 6>>}, Rect(0, 9, 3, 12), {}>>) }
RegionIdLists == { <<1, 2, 3>>, <<3, 1>>, <<2, 2, 1>>, <<1, 2, 3, 4>> }

InitPar ==
    /\ PipeIdle /\ GenIdle /\ call = NoCall /\ JobIdle /\ DbIdle
    /\ parArgs \in [segmentation_map : LabelMaps, region_ids : RegionIdLists,
                    order : {"scan", "reverse"}]
    /\ parpc = "submit" /\ futures = <<>> /\ joined = 0 /\ results = <<>>

\* executor.submit(process_region, region_id) for the next region id
Submit ==
    /\ parpc = "submit"
    /\ futures' = Append(futures, [state |-> "queued", result |-> <<>>])
    /\ parpc' = IF Len(futures) + 1 = Len(parArgs.region_ids) THEN "collect" ELSE parpc
    /\ UNCHANGED <<parArgs, joined, results, pipeVars, genVars, call, jobVars, dbVars>>

\* an idle worker thread takes a queued task
WorkerStart(i) ==
    /\ futures[i].state = "queued"
    /\ \A j \in 1 .. i - 1 : futures[j].state # "queued"
    /\ Cardinality({j \in 1 .. Len(futures) : futures[j].state = "running"}) < MaxWorkers
    /\ futures' = [futures EXCEPT ![i].state = "running"]
    /\ UNCHANGED <<parArgs, parpc, joined, results, pipeVars, genVars, call, jobVars, dbVars>>

\* process_region returns (region_id, contours) and the future completes
WorkerFinish(i) ==
    /\ futures[i].state = "running"
    /\ \E r \in {Val(ProcessRegion(parArgs.segmentation_map, parArgs.region_ids[i],
                                   parArgs.order))} :
           futures' = [futures EXCEPT ![i] = [state |-> "done",
                                              result |-> <<parArgs.region_ids[i], r>>]]
    /\ UNCHANGED <<parArgs, parpc, joined, results, pipeVars, genVars, call, jobVars, dbVars>>

\* the results taken as they complete, each written under the next region id
CollectAsCompleted ==
    /\ parpc = "collect"
    /\ \E k \in 1 .. Len(futures) :
           /\ futures[k].state = "done"
           /\ results' = DictStore(results, parArgs.region_ids[joined + 1], futures[k].result[2])
           /\ futures' = [futures EXCEPT ![k].state = "taken"]
    /\ joined' = joined + 1
    /\ parpc' = IF joined + 1 = Len(futures) THEN "returned" ELSE parpc
    /\ UNCHANGED <<parArgs, pipeVars, genVars, call, jobVars, dbVars>>

\* future.result() of the next future in submission order, once it is done,
\* and results[region_id] = contours
Collect ==
    /\ parpc = "collect"
    /\ futures[joined + 1].state = "done"
    /\ \E region_id \in {futures[joined + 1].result[1]},
          region_contours \in {futures[joined + 1].result[2]} :
           results' = DictStore(results, region_id, region_contours)
    /\ joined' = joined + 1
    /\ parpc' = IF joined + 1 = Len(futures) THEN "returned" ELSE parpc
    /\ UNCHANGED <<parArgs, futures, pipeVars, genVars, call, jobVars, dbVars>>

NextPar ==
    \/ Submit
    \/ \E i \in 1 .. Len(futures) : WorkerStart(i)
    \/ \E i \in 1 .. Len(futures) : WorkerFinish(i)
    \/ Collect

SpecPar == InitPar /\ [][NextPar]_vars

(***************************************************************************)
(* The job service: the submit endpoint and the background task of         *)
(* app/routers/facial_processing.py with the clients app/main.py or the    *)
(* tests hand to them.  JSON values are tagged records.                    *)
(***************************************************************************)
JNone   == [kind |-> "none"]
JStr(s) == [kind |-> "str", s |-> s]
JInt(n) == [kind |-> "int", n |-> n]

\* Python truth value of a JSON value
Truthy(v) ==
    CASE v.kind = "none" -> FALSE
      [] v.kind = "str"  -> v.s # ""
      [] v.kind = "int"  -> v.n # 0
      [] OTHER           -> Len(v.items) > 0

\* key in d
HasKey(d, key) == \E i \in 1 .. Len(d.items) : d.items[i][1] = key

\* d.get(key, default)
DictGet(d, key, default) ==
    IF HasKey(d, key)
    THEN d.items[CHOOSE i \in 1 .. Len(d.items) : d.items[i][1] = key][2]
    ELSE default

\* "<svg" in item.lower() or "data:image/svg" in item.lower()
SvgLookingStrings == { "<svg></svg>", "data:image/svg+xml;base64,AA" }
LooksLikeSvg(s) == s \in SvgLookingStrings

\* the loop over the items of a list-shaped result
RECURSIVE ExtractFromList(_, _, _, _)
ExtractFromList(items, i, svg, mask_contours) ==
    IF i > Len(items) THEN <<svg, mask_contours>>
    ELSE LET item == items[i] IN
         IF item.kind = "dict"
         THEN LET svg1 == IF HasKey(item, "svg") /\ ~Truthy(svg)
                          THEN DictGet(item, "svg", JNone) ELSE svg
                  mc1  == IF HasKey(item, "mask_contours") /\ ~Truthy(mask_contours)
                          THEN DictGet(item, "mask_contours", JNone)
                          ELSE IF ~HasKey(item, "mask_contours")
                                  /\ HasKey(item, "contours") /\ ~Truthy(mask_contours)
                               THEN DictGet(item, "contours", JNone)
                               ELSE mask_contours
              IN ExtractFromList(items, i + 1, svg1, mc1)
         ELSE IF item.kind = "str" /\ LooksLikeSvg(item.s) /\ ~Truthy(svg)
              THEN ExtractFromList(items, i + 1, item, mask_contours)
              ELSE ExtractFromList(items, i + 1, svg, mask_contours)

RECURSIVE extract_result_data(_)
extract_result_data(result_data) ==
    CASE result_data.kind = "none" -> <<JStr(""), Dict(<<>>)>>
      [] result_data.kind = "dict" ->
            LET svg == DictGet(result_data, "svg", JStr(""))
                mask_contours == DictGet(result_data, "mask_contours", Dict(<<>>))
            IN  IF ~Truthy(svg) /\ ~Truthy(mask_contours) /\ HasKey(result_data, "result")
                THEN extract_result_data(DictGet(result_data, "result", JNone))
                ELSE <<svg, mask_contours>>
      [] result_data.kind = "list" ->
            ExtractFromList(result_data.items, 1, JStr(""), Dict(<<>>))
      [] result_data.kind = "str" -> <<result_data, Dict(<<>>)>>
      [] OTHER -> <<JStr(""), Dict(<<>>)>>

\* ProcessingResponse accepts the value returned by the endpoint
ValidContours(v) ==
    \/ v.kind = "none"
    \/ /\ v.kind = "dict"
       /\ \A i \in 1 .. Len(v.items) : v.items[i][2].kind = "list"
ValidSvg(v) == v.kind \in {"none", "str"}

\* the response as serialised through response_model=ProcessingResponse
ProcessingResponse(svg, mask_contours, job_id, status) ==
    IF ValidSvg(svg) /\ ValidContours(mask_contours)
    THEN [kind |-> "response", svg |-> svg, mask_contours |-> mask_contours,
          job_id |-> job_id, status |-> status]
    ELSE [kind |-> "raised", error |-> "ResponseValidationError"]

\* the clients the endpoint and the task are handed: none with the database
\* disabled, PostgresClient and its PerceptualHashCache as wired by the
\* application, or the AsyncMock pair of the tests
ClientPairs ==
    { [postgres_client |-> "None", perceptual_hash_cache |-> "None"],
      [postgres_client |-> "PostgresClient",
       perceptual_hash_cache |-> "PerceptualHashCache"],
      [postgres_client |-> "AsyncMock", perceptual_hash_cache |-> "AsyncMock"] }

OneRegion   == Dict(<< <<"1", List(<<>>)>> >>)
SvgAndMask  == Dict(<< <<"svg", JStr("PHN2Zz48L3N2Zz4=")>>,
                       <<"mask_contours", OneRegion>> >>)
\* what the lookup of the cache has for the request
CachedResults ==
    { JNone,
      Dict(<< <<"svg", JStr("<svg></svg>")>>, <<"regions", OneRegion>> >>),
      Dict(<< <<"result", SvgAndMask>> >>),
      Dict(<< <<"result", JNone>> >>),
      Dict(<< <<"result", JStr("<svg></svg>")>> >>),
      Dict(<< <<"result", List(<< JStr("<svg></svg>"),
                                  Dict(<< <<"contours", OneRegion>> >>) >>)>> >>),
      Dict(<< <<"result", Dict(<< <<"result", SvgAndMask>> >>)>> >>),
      Dict(<< <<"result", JInt(7)>> >>),
      Dict(<< <<"svg", JStr("PHN2Zz48L3N2Zz4=")>>,
              <<"mask_contours", List(<< List(<<>>) >>)>> >>),
      Dict(<< <<"result", Dict(<< <<"svg", JStr("PHN2Zz48L3N2Zz4=")>>,
                                  <<"mask_contours", List(<< List(<<>>) >>)>> >>)>> >>) }

\* PostgresClient.store_job_status(job_id, status, progress, ...) called with
\* the keywords the router passes; DatabaseService.store_job_status(job_id,
\* status, cache_id, error_message) takes them, commits the job's row, and on
\* an SQLAlchemyError rolls back and raises DatabaseException
StoreJobStatus(client, writes, job_id, status, error_message) ==
    CASE client = "PostgresClient" -> [ok |-> FALSE, error |-> "TypeError", writes |-> writes]
      [] client = "AsyncMock" ->
            [ok |-> TRUE, error |-> "",
             writes |-> Append(writes, [job_id |-> job_id, status |-> status,
                                        error_message |-> error_message])]
      [] client = "DatabaseService" ->
            IF database = "up"
            THEN [ok |-> TRUE, error |-> "",
                  writes |-> Append(writes, [job_id |-> job_id, status |-> status,
                                             error_message |-> error_message])]
            ELSE [ok |-> FALSE, error |-> "Failed to store job status", writes |-> writes]
      [] OTHER -> [ok |-> TRUE, error |-> "", writes |-> writes]

\* PerceptualHashCache.get_cached_result awaits the non-coroutine
\* PostgresClient.get_cached_result
GetCachedResult(client, return_value) ==
    CASE client = "PerceptualHashCache" -> [ok |-> FALSE, error |-> "TypeError", value |-> JNone]
      [] client = "AsyncMock" -> [ok |-> TRUE, error |-> "", value |-> return_value]
      [] OTHER -> [ok |-> TRUE, error |-> "", value |-> JNone]

JobInit ==
    /\ clients \in ClientPairs
    /\ database = "up"
    /\ cached \in IF clients.perceptual_hash_cache = "AsyncMock"
                  THEN CachedResults ELSE {JNone}
    /\ jobWrites = <<>> /\ cacheWrites = <<>> /\ tasks = <<>> /\ responses = <<>>

InitSvc ==
    /\ PipeIdle /\ GenIdle /\ call = NoCall /\ ParIdle /\ DbIdle
    /\ JobInit

NewTask(job_id) ==
    [job_id |-> job_id, pc |-> "scheduled", calls |-> 0, stores |-> 0, error |-> ""]

\* POST /api/v1/frontal/crop/submit
process_image_endpoint ==
    /\ Len(responses) < MaxRequests
    /\ \E cache_result \in {GetCachedResult(clients.perceptual_hash_cache, cached)} :
         IF ~cache_result.ok
         THEN /\ responses' = Append(responses, [kind |-> "raised", error |-> cache_result.error])
              /\ UNCHANGED <<jobWrites, tasks>>
         ELSE IF clients.perceptual_hash_cache # "None" /\ Truthy(cache_result.value)
         THEN \E r \in {extract_result_data(
                          DictGet(cache_result.value, "result", Dict(<<>>)))} :
                /\ responses' = Append(responses,
                       ProcessingResponse(r[1], r[2], JStr(""), "completed"))
                /\ UNCHANGED <<jobWrites, tasks>>
         ELSE \E job_id \in {Len(tasks) + 1} :
              \E w \in {StoreJobStatus(clients.postgres_client, jobWrites,
                                       job_id, "queued", "")} :
                IF ~w.ok
                THEN /\ responses' = Append(responses, [kind |-> "raised", error |-> w.error])
                     /\ UNCHANGED <<jobWrites, tasks>>
                ELSE /\ jobWrites' = w.writes
                     /\ tasks' = Append(tasks, NewTask(job_id))
                     /\ responses' = Append(responses,
                            ProcessingResponse(JNone, JNone, JInt(job_id), "queued"))
    /\ UNCHANGED <<clients, database, cached, cacheWrites, pipeVars, genVars, call, parVars, dbVars>>

TaskSet(t, step, error) == [tasks EXCEPT ![t].pc = step, ![t].error = error]

\* process_image_task: the 'processing' update that opens the try block
TaskBegin(t) ==
    /\ tasks[t].pc = "scheduled"
    /\ \E w \in {StoreJobStatus(clients.postgres_client, jobWrites,
                                tasks[t].job_id, "processing", "")} :
         /\ jobWrites' = w.writes
         /\ tasks' = IF w.ok THEN TaskSet(t, "processing", "")
                     ELSE TaskSet(t, "handling", w.error)
    /\ UNCHANGED <<clients, database, cached, cacheWrites, responses, pipeVars, genVars, call, parVars, dbVars>>

ProcessingErrors == { "No face detected in the image", "contours must be a dictionary" }

\* process_image_task: the call of FacialSegmentationProcessor.process_image
TaskProcess(t) ==
    /\ tasks[t].pc = "processing"
    /\ \/ tasks' = [tasks EXCEPT ![t].pc = "processed", ![t].calls = @ + 1]
       \/ \E e \in ProcessingErrors :
            tasks' = [tasks EXCEPT ![t].pc = "handling", ![t].calls = @ + 1,
                                   ![t].error = e]
    /\ UNCHANGED <<clients, database, cached, jobWrites, cacheWrites, responses,
                   pipeVars, genVars, call, parVars, dbVars>>

\* the logging after the 'completed' update raises into the except block
TaskStoreThenRaise(t) ==
    /\ tasks[t].pc = "processed"
    /\ cacheWrites' = cacheWrites
    /\ \E w \in {StoreJobStatus(clients.postgres_client, jobWrites,
                                tasks[t].job_id, "completed", "")} :
         /\ jobWrites' = w.writes
         /\ tasks' = [tasks EXCEPT ![t].pc = "handling", ![t].error = "TypeError"]
    /\ UNCHANGED <<clients, database, cached, responses, pipeVars, genVars, call, parVars, dbVars>>

\* process_image_task: store_result in the cache, then the 'completed' update
TaskStore(t) ==
    /\ tasks[t].pc = "processed"
    /\ \/ /\ clients.perceptual_hash_cache # "None"
          /\ cacheWrites' = cacheWrites
          /\ jobWrites' = jobWrites
          /\ tasks' = [tasks EXCEPT ![t].pc = "handling", ![t].stores = @ + 1,
                                    ![t].error = "cache store failed"]
       \/ /\ cacheWrites' = IF clients.perceptual_hash_cache # "None"
                            THEN Append(cacheWrites, tasks[t].job_id) ELSE cacheWrites
          /\ \E w \in {StoreJobStatus(clients.postgres_client, jobWrites,
                                      tasks[t].job_id, "completed", "")} :
               /\ jobWrites' = w.writes
               /\ tasks' = [tasks EXCEPT
                     ![t].pc = IF w.ok THEN "done" ELSE "handling",
                     ![t].error = w.error,
                     ![t].stores = IF clients.perceptual_hash_cache # "None"
                                   THEN @ + 1 ELSE @]
    /\ UNCHANGED <<clients, database, cached, responses, pipeVars, genVars, call, parVars, dbVars>>

\* an except block that sends the job back to processing
TaskHandleRetry(t) ==
    /\ tasks[t].pc = "handling"
    /\ \E w \in {StoreJobStatus(clients.postgres_client, jobWrites,
                                tasks[t].job_id, "failed", tasks[t].error)} :
         /\ jobWrites' = w.writes
         /\ tasks' = [tasks EXCEPT ![t].pc = IF w.ok THEN "processing" ELSE "crashed"]
    /\ UNCHANGED <<clients, database, cached, cacheWrites, responses, pipeVars, genVars, call, parVars, dbVars>>

\* process_image_task: the except block; log_job_status(job_id, "failed", 0.0,
\* error=...) passes error twice, so the handler itself ends in a TypeError
TaskHandle(t) ==
    /\ tasks[t].pc = "handling"
    /\ \E w \in {StoreJobStatus(clients.postgres_client, jobWrites,
                                tasks[t].job_id, "failed", tasks[t].error)} :
         /\ jobWrites' = w.writes
         /\ tasks' = [tasks EXCEPT ![t].pc = "crashed"]
    /\ UNCHANGED <<clients, database, cached, cacheWrites, responses, pipeVars, genVars, call, parVars, dbVars>>

NextSvc ==
    \/ process_image_endpoint
    \/ \E t \in 1 .. Len(tasks) : TaskBegin(t)
    \/ \E t \in 1 .. Len(tasks) : TaskProcess(t)
    \/ \E t \in 1 .. Len(tasks) : TaskStore(t)
    \/ \E t \in 1 .. Len(tasks) : TaskHandle(t)

SpecSvc == InitSvc /\ [][NextSvc]_vars

(***************************************************************************)
(* The same endpoint and task over a database that can fail: the task is   *)
(* handed a DatabaseService, whose session raises SQLAlchemyError while    *)
(* the database is down.                                                   *)
(***************************************************************************)
DatabaseClients == [postgres_client |-> "DatabaseService", perceptual_hash_cache |-> "None"]

InitSvcDb ==
    /\ PipeIdle /\ GenIdle /\ call = NoCall /\ ParIdle /\ DbIdle
    /\ clients = DatabaseClients
    /\ database = "up"
    /\ cached = JNone
    /\ jobWrites = <<>> /\ cacheWrites = <<>> /\ tasks = <<>> /\ responses = <<>>

\* the connection to the database is lost
DatabaseFails ==
    /\ database = "up"
    /\ database' = "down"
    /\ UNCHANGED <<clients, cached, jobWrites, cacheWrites, tasks, responses,
                   pipeVars, genVars, call, parVars, dbVars>>

\* the database is back
DatabaseRecovers ==
    /\ database = "down"
    /\ database' = "up"
    /\ UNCHANGED <<clients, cached, jobWrites, cacheWrites, tasks, responses,
                   pipeVars, genVars, call, parVars, dbVars>>

NextSvcDb ==
    \/ process_image_endpoint
    \/ \E t \in 1 .. Len(tasks) : TaskBegin(t)
    \/ \E t \in 1 .. Len(tasks) : TaskProcess(t)
    \/ \E t \in 1 .. Len(tasks) : TaskStore(t)
    \/ \E t \in 1 .. Len(tasks) : TaskHandle(t)
    \/ DatabaseFails
    \/ DatabaseRecovers

SpecSvcDb == InitSvcDb /\ [][NextSvcDb]_vars

(***************************************************************************)
(* Part VI: DatabaseService of src/facial/service.py over the tables of    *)
(* src/facial/models.py.  Every request has a session of its own; a        *)
(* session's changes are its own until it commits.  The database enforces  *)
(* the unique index on cache.input_hash and the foreign keys jobs.cache_id *)
(* and processing_metrics.job_id at each statement.                        *)
(***************************************************************************)
MaxSessions == 2
\* cleanup_old_data(days=30)
RetentionDays == 30
\* utcnow, in days; a row is old when created on day 0, recent on day 50
Today == 60
NoCacheId == 0

CacheRow(id, input_hash, result, created_at) ==
    [id |-> id, input_hash |-> input_hash, result |-> result, created_at |-> created_at]
JobRow(id, cache_id, created_at) == [id |-> id, cache_id |-> cache_id, created_at |-> created_at]
MetricsRow(id, job_id, created_at) == [id |-> id, job_id |-> job_id, created_at |-> created_at]

\* the committed tables a request can find: mixes of old and recent rows
TableMixes ==
    { [cache |-> {}, jobs |-> {}, metrics |-> {}],
      [cache |-> {CacheRow(1, "h1", 0, 0)}, jobs |-> {}, metrics |-> {}],
      [cache |-> {CacheRow(1, "h1", 0, 0)},
       jobs |-> {JobRow("j1", 1, 0)}, metrics |-> {MetricsRow(1, "j1", 0)}],
      [cache |-> {CacheRow(1, "h1", 0, 0)},
       jobs |-> {JobRow("j1", 1, 50)}, metrics |-> {}],
      [cache |-> {CacheRow(1, "h1", 0, 0), CacheRow(2, "h2", 0, 50)},
       jobs |-> {JobRow("j1", NoCacheId, 0), JobRow("j2", 2, 50)}, metrics |-> {}],
      [cache |-> {CacheRow(1, "h1", 0, 0)},
       jobs |-> {JobRow("j1", NoCacheId, 0)}, metrics |-> {MetricsRow(1, "j1", 50)}],
      [cache |-> {CacheRow(1, "h1", 0, 50)},
       jobs |-> {JobRow("j1", 1, 0)}, metrics |-> {}],
      [cache |-> {CacheRow(1, "h1", 0, 50)},
       jobs |-> {JobRow("j1", 1, 0), JobRow("j2", NoCacheId, 50)},
       metrics |-> {MetricsRow(1, "j1", 0), MetricsRow(2, "j2", 50)}] }

InputHashes == {"h1", "h2"}

NoPending == [kind |-> "none"]
NoReturn  == [kind |-> "none"]
NewSession ==
    [op |-> "none", pc |-> "idle", input_hash |-> "", result |-> 0, found |-> NoCacheId,
     pending |-> NoPending, ret |-> NoReturn]

InitDb ==
    /\ PipeIdle /\ GenIdle /\ call = NoCall /\ ParIdle /\ JobIdle /\ AuthIdle
    /\ \E t \in TableMixes :
         /\ cacheTable = t.cache /\ jobTable = t.jobs /\ metricsTable = t.metrics
         /\ nextId = Cardinality(t.cache) + 1
    /\ sessions = [s \in 1 .. MaxSessions |-> NewSession]

\* select(Cache).where(Cache.input_hash == input_hash): the id of the
\* committed entry, or none
SelectCache(input_hash) ==
    IF \E c \in cacheTable : c.input_hash = input_hash
    THEN (CHOOSE c \in cacheTable : c.input_hash = input_hash).id
    ELSE NoCacheId

\* store_cache_result: the session's transaction begins with the lookup of
\* the entry; the result stored is the number of the request
StoreSelect(s) ==
    /\ sessions[s].pc = "idle"
    /\ \E h \in InputHashes :
         sessions' = [sessions EXCEPT ![s] =
             [NewSession EXCEPT !.op = "store_cache_result", !.pc = "write",
                                !.input_hash = h, !.result = s,
                                !.found = SelectCache(h)]]
    /\ UNCHANGED <<cacheTable, jobTable, metricsTable, nextId,
                   pipeVars, genVars, call, parVars, jobVars, authVars>>

\* an INSERT that does not look at the unique index
FlushUnchecked(s, input_hash) == "inserted"

\* session.add(cache_entry) and flush(): the INSERT waits for a session
\* holding an uncommitted entry of the same hash, and fails on the unique
\* index when a committed entry has it
Flush(s, input_hash) ==
    IF \E c \in cacheTable : c.input_hash = input_hash THEN "IntegrityError"
    ELSE IF \E o \in (1 .. MaxSessions) \ {s} :
               /\ sessions[o].pending.kind = "insert"
               /\ sessions[o].pending.row.input_hash = input_hash
         THEN "waiting"
         ELSE "inserted"

\* store_cache_result: the update of the entry found, or the insert of a new one
StoreWrite(s) ==
    /\ sessions[s].pc = "write"
    /\ IF sessions[s].found # NoCacheId
       THEN /\ sessions' = [sessions EXCEPT
                  ![s].pending = [kind |-> "update", input_hash |-> sessions[s].input_hash,
                                  result |-> sessions[s].result],
                  ![s].pc = "commit"]
            /\ nextId' = nextId
       ELSE \E outcome \in {Flush(s, sessions[s].input_hash)} :
            /\ outcome # "waiting"
            /\ IF outcome = "inserted"
               THEN /\ sessions' = [sessions EXCEPT
                          ![s].pending = [kind |-> "insert",
                                          row |-> CacheRow(nextId, sessions[s].input_hash,
                                                           sessions[s].result, Today)],
                          ![s].found = nextId,
                          ![s].pc = "commit"]
                    /\ nextId' = nextId + 1
               ELSE /\ sessions' = [sessions EXCEPT ![s].pc = "rollback"]
                    /\ nextId' = nextId
    /\ UNCHANGED <<cacheTable, jobTable, metricsTable, pipeVars, genVars, call, parVars, jobVars, authVars>>

\* the cache table after the session's changes are committed
Committed(pending) ==
    IF pending.kind = "insert" THEN cacheTable \cup {pending.row}
    ELSE IF pending.kind = "update"
    THEN {IF c.input_hash = pending.input_hash THEN [c EXCEPT !.result = pending.result] ELSE c :
            c \in cacheTable}
    ELSE cacheTable

\* store_cache_result: commit() and return cache_id, or an SQLAlchemyError
StoreCommit(s) ==
    /\ sessions[s].pc = "commit"
    /\ \/ /\ cacheTable' = Committed(sessions[s].pending)
          /\ sessions' = [sessions EXCEPT
                ![s].pc = "returned", ![s].pending = NoPending,
                ![s].ret = [kind |-> "cache_id", id |-> sessions[s].found]]
       \/ /\ cacheTable' = cacheTable
          /\ sessions' = [sessions EXCEPT ![s].pc = "rollback"]
    /\ UNCHANGED <<jobTable, metricsTable, nextId, pipeVars, genVars, call, parVars, jobVars, authVars>>

\* store_cache_result: the except block
StoreRollback(s) ==
    /\ sessions[s].pc = "rollback"
    /\ sessions' = [sessions EXCEPT
          ![s].pc = "raised", ![s].pending = NoPending,
          ![s].ret = [kind |-> "DatabaseException"]]
    /\ UNCHANGED <<cacheTable, jobTable, metricsTable, nextId,
                   pipeVars, genVars, call, parVars, jobVars, authVars>>

\* a database that deletes without looking at the foreign keys
ForeignKeyUnenforced(deleted, referring) == FALSE

\* the foreign key of the referring rows forbids the delete of a row they name
ForeignKeyViolated(deleted, referring) == \E id \in referring : id \in {d.id : d \in deleted}

Old(rows) == {r \in rows : r.created_at < Today - RetentionDays}

\* cleanup_old_data as one transaction: the three DELETE statements in the
\* order of the code and the commit; failure is the step (1 to 4) at which
\* the database raises an error of its own, 0 for none
CleanupOldData(failure) ==
    LET oldCache == Old(cacheTable)
        oldJobs  == Old(jobTable)
        oldMetrics == Old(metricsTable)
        unchanged == [ok |-> FALSE, cache |-> cacheTable, jobs |-> jobTable,
                      metrics |-> metricsTable]
    IN  IF failure = 1 \/ ForeignKeyViolated(oldCache, {j.cache_id : j \in jobTable})
        THEN unchanged
        ELSE IF failure = 2 \/ ForeignKeyViolated(oldJobs, {m.job_id : m \in metricsTable})
        THEN unchanged
        ELSE IF failure \in {3, 4}
        THEN unchanged
        ELSE [ok |-> TRUE, cache |-> cacheTable \ oldCache, jobs |-> jobTable \ oldJobs,
              metrics |-> metricsTable \ oldMetrics]

\* cleanup_old_data in a session of its own
cleanup_old_data(s) ==
    /\ sessions[s].pc = "idle"
    /\ \E failure \in 0 .. 4 :
       \E r \in {CleanupOldData(failure)} :
         /\ cacheTable' = r.cache /\ jobTable' = r.jobs /\ metricsTable' = r.metrics
         /\ sessions' = [sessions EXCEPT ![s] =
               [NewSession EXCEPT !.op = "cleanup_old_data",
                                  !.pc = IF r.ok THEN "returned" ELSE "raised",
                                  !.ret = IF r.ok THEN [kind |-> "None"]
                                          ELSE [kind |-> "DatabaseException"]]]
    /\ UNCHANGED <<nextId, pipeVars, genVars, call, parVars, jobVars, authVars>>

NextDb ==
    \/ \E s \in 1 .. MaxSessions : StoreSelect(s)
    \/ \E s \in 1 .. MaxSessions : StoreWrite(s)
    \/ \E s \in 1 .. MaxSessions : StoreCommit(s)
    \/ \E s \in 1 .. MaxSessions : StoreRollback(s)
    \/ \E s \in 1 .. MaxSessions : cleanup_old_data(s)

SpecDb == InitDb /\ [][NextDb]_vars

(***************************************************************************)
(* Part VII: the refresh tokens of src/auth.  A refresh token is the JWT   *)
(* of its payload: the user and the expiry, which is the second of its     *)
(* creation plus the lifetime, so two tokens created for a user in the     *)
(* same second are the same string.  The table refresh_tokens holds one    *)
(* row per token hash (the column is unique).  Time is counted in ticks.   *)
(***************************************************************************)
MaxClock     == 2
MaxIssued    == 2
MaxRefreshes == 1
\* REFRESH_TOKEN_EXPIRE_DAYS and the 30 days of store_refresh_token, in ticks
TokenLifetime == 1
UserIds == {1, 2}
NoUser == 0

\* create_refresh_token
CreateRefreshToken(user_id) == [sub |-> user_id, exp |-> clock + TokenLifetime]

\* verify_token(token, "refresh"): the payload of a token that has not expired
VerifyToken(token) == clock <= token.exp

\* a store that writes over the row of the same hash
StoreRefreshTokenUpsert(user_id, token) ==
    [ok |-> TRUE,
     rows |-> {r \in refreshTokens : r.token # token}
              \cup {[token |-> token, user_id |-> user_id,
                     expires_at |-> clock + TokenLifetime, is_revoked |-> FALSE]}]

\* store_refresh_token: the INSERT fails on the unique token_hash
StoreRefreshToken(user_id, token) ==
    IF \E r \in refreshTokens : r.token = token
    THEN [ok |-> FALSE, rows |-> refreshTokens]
    ELSE [ok |-> TRUE,
          rows |-> refreshTokens
                   \cup {[token |-> token, user_id |-> user_id,
                          expires_at |-> clock + TokenLifetime, is_revoked |-> FALSE]}]

\* verify_refresh_token: the user of the token, or none
VerifyRefreshToken(token) ==
    IF ~VerifyToken(token) THEN NoUser
    ELSE IF \E r \in refreshTokens :
               /\ r.token = token /\ r.user_id = token.sub
               /\ ~r.is_revoked /\ r.expires_at > clock
         THEN token.sub
         ELSE NoUser

InitAuth ==
    /\ PipeIdle /\ GenIdle /\ call = NoCall /\ ParIdle /\ JobIdle
    /\ cacheTable = {} /\ jobTable = {} /\ metricsTable = {} /\ sessions = <<>> /\ nextId = 1
    /\ AuthIdle

\* create_tokens: the pair is handed out once the refresh token is stored
CreateTokens(user_id, by, from) ==
    \E token \in {CreateRefreshToken(user_id)} :
    \E stored \in {StoreRefreshToken(user_id, token)} :
        /\ refreshTokens' = stored.rows
        /\ issued' = IF stored.ok
                     THEN issued \cup {[token |-> token, by |-> by, from |-> from]}
                     ELSE issued

\* POST /login of a user with the right password
login_user ==
    /\ Cardinality(issued) < MaxIssued
    /\ \E u \in UserIds : CreateTokens(u, "login", [sub |-> NoUser, exp |-> 0])
    /\ UNCHANGED <<clock, refreshes, revocations>>
    /\ UNCHANGED <<cacheTable, jobTable, metricsTable, sessions, nextId,
                   pipeVars, genVars, call, parVars, jobVars>>

\* POST /refresh with a token handed out before: verify_refresh_token
RefreshVerify ==
    /\ Len(refreshes) < MaxRefreshes
    /\ \E i \in issued :
         refreshes' = Append(refreshes,
             [token |-> i.token, user |-> VerifyRefreshToken(i.token),
              pc |-> IF VerifyRefreshToken(i.token) = NoUser THEN "401" ELSE "create_tokens",
              after_revocation |-> i.token \in revocations])
    /\ UNCHANGED <<refreshTokens, clock, revocations, issued>>
    /\ UNCHANGED <<cacheTable, jobTable, metricsTable, sessions, nextId,
                   pipeVars, genVars, call, parVars, jobVars>>

\* POST /refresh: create_tokens for the user that was verified
RefreshCreate(k) ==
    /\ refreshes[k].pc = "create_tokens"
    /\ Cardinality(issued) < MaxIssued
    /\ CreateTokens(refreshes[k].user, "refresh", refreshes[k].token)
    /\ refreshes' = [refreshes EXCEPT ![k].pc = "done"]
    /\ UNCHANGED <<clock, revocations>>
    /\ UNCHANGED <<cacheTable, jobTable, metricsTable, sessions, nextId,
                   pipeVars, genVars, call, parVars, jobVars>>

\* POST /logout: revoke_refresh_token
logout_user ==
    /\ \E i \in issued :
         /\ refreshTokens' = {IF r.token = i.token THEN [r EXCEPT !.is_revoked = TRUE] ELSE r :
                                r \in refreshTokens}
         /\ revocations' = revocations \cup {i.token}
    /\ UNCHANGED <<clock, refreshes, issued>>
    /\ UNCHANGED <<cacheTable, jobTable, metricsTable, sessions, nextId,
                   pipeVars, genVars, call, parVars, jobVars>>

\* POST /change-password: revoke_all_user_tokens
change_password ==
    /\ \E u \in UserIds :
         /\ refreshTokens' = {IF r.user_id = u THEN [r EXCEPT !.is_revoked = TRUE] ELSE r :
                                r \in refreshTokens}
         /\ revocations' = revocations \cup {r.token : r \in {x \in refreshTokens : x.user_id = u}}
    /\ UNCHANGED <<clock, refreshes, issued>>
    /\ UNCHANGED <<cacheTable, jobTable, metricsTable, sessions, nextId,
                   pipeVars, genVars, call, parVars, jobVars>>

\* cleanup_expired_tokens
cleanup_expired_tokens ==
    /\ refreshTokens' = {r \in refreshTokens : ~(r.expires_at < clock)}
    /\ UNCHANGED <<clock, refreshes, revocations, issued>>
    /\ UNCHANGED <<cacheTable, jobTable, metricsTable, sessions, nextId,
                   pipeVars, genVars, call, parVars, jobVars>>

\* a second passes
Tick ==
    /\ clock < MaxClock
    /\ clock' = clock + 1
    /\ UNCHANGED <<refreshTokens, refreshes, revocations, issued>>
    /\ UNCHANGED <<cacheTable, jobTable, metricsTable, sessions, nextId,
                   pipeVars, genVars, call, parVars, jobVars>>

NextAuth ==
    \/ login_user
    \/ RefreshVerify
    \/ \E k \in 1 .. Len(refreshes) : RefreshCreate(k)
    \/ logout_user
    \/ change_password
    \/ cleanup_expired_tokens
    \/ Tick

SpecAuth == InitAuth /\ [][NextAuth]_vars

(***************************************************************************)
(* The properties of the specification document, stated over the model.    *)
(***************************************************************************)

\* C1: whenever process_face_regions has returned its contour collection,
\* the collection is a keyed mapping and process_image returns the pair
\* (document, contour map) instead of failing with "Invalid input parameters"
C1_ProcessImageReturnsPair ==
    [][pc = "create_document" /\ pc' = "done"
          => contours.kind = "dict" /\ ret'.status = "returned"]_vars

\* a run in which regions were extracted and create rejected the collection
C1_ListRejected ==
    /\ pc = "done" /\ contours.kind = "list" /\ Len(contours.items) > 0
    /\ ret = Raised("ValueError: Invalid input parameters")

\* C2: a create call whose image_shape is empty, not of length 2, or has a
\* non-positive height or width, or whose contours argument is not a dict,
\* is rejected with the invalid-input error of its class before generate()
\* is invoked; no document is produced
C2_InvalidInputRejected ==
    call.op \in {"create", "create_app"}
    /\ ( \/ call.image_shape.kind = "none"
         \/ Len(call.image_shape.items) # 2
         \/ \E i \in 1 .. Len(call.image_shape.items) : i <= 2 /\ call.image_shape.items[i] <= 0
         \/ call.contours.kind # "dict" )
    => /\ ~call.result.ok
       /\ ~call.result.invoked
       /\ call.result.value = NoDocument
       /\ call.result.error = IF call.op = "create"
                              THEN "InvalidInputError: Invalid input parameters provided"
                              ELSE "ValueError: Invalid input parameters"

\* create was called with a valid shape and a list of contours, and refused
C2_ListRefused ==
    /\ call.op = "create"
    /\ call.image_shape = Shape(<<4, 6>>)
    /\ call.contours = List(<< Triangle, Segment, Square >>)
    /\ ~call.result.invoked
    /\ call.result.error = "InvalidInputError: Invalid input parameters provided"

\* C3: process_image with a non-empty landmark list shorter than the eye
\* lookups need fails with the no-face error and before any mask work
\* (resize, rotation and crop, colour isolation, morphology)
C3_ShortLandmarksRejectedEarly ==
    pc = "done" /\ inp.lm.n \in 1 .. 362
    => /\ ret = Raised("ValueError: No face detected in the image")
       /\ maskWork = {}

\* a run on two landmarks and a map of half the image's size: the map was
\* resized, then the eye lookup failed
C3_ResizedThenIndexError ==
    /\ pc = "done" /\ inp.lm.n = 2
    /\ "resize" \in maskWork
    /\ ret.status = "raised" /\ ret.error # "ValueError: No face detected in the image"

\* C4: an alignment call on a landmark list that lacks the landmarks its eye
\* lookup reads (36..41 and 42..47 for autorotate_face, 33, 133, 362 and 263
\* for rotate_and_crop_face) signals an error; it never returns the input
\* unrotated as a successful result
C4_NoSilentZeroRotation ==
    \/ call.op = "autorotate_face" /\ call.landmarks.n <= 42
    \/ call.op = "rotate_and_crop_face" /\ call.landmarks.n <= 362
    => ~call.result.ok

\* autorotate_face on 36 landmarks, tilted eyes: success, nothing rotated
C4_ReturnedUnrotated ==
    /\ call.op = "autorotate_face" /\ call.landmarks.n = 36
    /\ call.landmarks.rightEye[2] # call.landmarks.leftEye[2]
    /\ call.result.ok /\ ~call.result.rotated

\* C5: a run whose main-face mask is empty (no non-black colour in the map,
\* or a cleaned main mask without a contour) ends with the no-face-region
\* error raised to the caller
C5_EmptyMainFaceRaises ==
    pc = "done" /\ "crop" \in maskWork /\ region1 = {}
    => ret = Raised("ValueError: No face contour found")

\* an all-black map: _process_subdivided_regions returned (result_image, [])
\* as a normal result and the run failed later on something else
C5_BlackMapReturned ==
    /\ pc = "done" /\ contours = [kind |-> "tuple", items |-> <<>>]
    /\ ret.status = "raised" /\ ret.error # "ValueError: No face contour found"

\* C6: the masks _subdivide_main_face_region returns never share a pixel:
\* forehead, left ear, right ear and the residual main-face mask are
\* pairwise disjoint
C6_SubdivisionsDisjoint ==
    call.op = "subdivide" /\ call.result.ok
    => \E forehead  \in {call.result.value.subdivisions[1].mask},
          left_ear  \in {call.result.value.subdivisions[2].mask},
          right_ear \in {call.result.value.subdivisions[3].mask},
          main_face \in {call.result.value.main_face_mask} :
           /\ forehead \cap left_ear = {} /\ forehead \cap right_ear = {}
           /\ left_ear \cap right_ear = {}
           /\ main_face \cap (forehead \cup left_ear \cup right_ear) = {}

\* a subdivision whose forehead and right ear overlap
C6_ForeheadMeetsEar ==
    /\ call.op = "subdivide" /\ call.result.ok
    /\ call.result.value.subdivisions[1].mask \cap call.result.value.subdivisions[3].mask # {}

\* C7: every contour stored in the contour result of a run has at least 3
\* points (the empty lists that pad unused region ids are not contours)
C7_StoredContoursHaveThreePoints ==
    \A i \in 1 .. Len(contours.items) :
        Len(contours.items[i]) = 0 \/ Len(contours.items[i]) >= 3

\* a finished run whose result holds a contour of one or two points
C7_DegenerateContourStored ==
    /\ pc = "done"
    /\ \E i \in 1 .. Len(contours.items) : Len(contours.items[i]) \in {1, 2}

\* the largest contour of the opened raw ear mask is not above the threshold
EarBelowThreshold(raw) ==
    \E cs \in {Val(FindContours(MorphOpen(raw, StructuringElement(3), seg.w, seg.h, 1),
                                seg.w, seg.h, inp.order))} :
        \/ cs = <<>>
        \/ ContourArea2(LargestContour(cs).pts) <= 2 * inp.cfg.min_region_area

\* the ear masks of a run are all-zero when the ear is not above the threshold
EarsCleaned ==
    pc = "subdivisions" /\ idx = 1
    => \E bbox \in {AnalyzeFaceContour(region1, seg.w, seg.h, inp.order).bbox} :
       \E raw \in {Val(RawEarMasks(region1, bbox, inp.cfg, seg.w, seg.h))} :
           /\ EarBelowThreshold(raw.left) => sub[2].mask = {}
           /\ EarBelowThreshold(raw.right) => sub[3].mask = {}

\* the loop pass over an empty or sub-threshold region writes no contour,
\* raises nothing and moves on to the next region
DegenerateRegionSkipped ==
    /\ pc = "subdivisions"
    /\ sub[idx].mask = {} \/ Cardinality(sub[idx].mask) < inp.cfg.min_region_area
    => /\ contours' = contours
       /\ ret' = ret /\ ret.status = "running"
       /\ idx' = idx + 1
       /\ pc' = IF idx < Len(sub) THEN "subdivisions" ELSE "additional_regions"

\* C8: an empty or sub-threshold region is never an error: the contour of a
\* mask without foreground is empty, ear cleaning yields an all-zero mask
\* when the largest ear contour is not above min_region_area, and the loop
\* over the subdivisions writes no contour for such a region and goes on
C8_DegenerateRegionIsNoError ==
    [](EarsCleaned) /\ [][DegenerateRegionSkipped]_vars

\* a run that skipped an empty left ear, then processed the right ear and
\* stored its contour
C8_SkippedThenStored ==
    /\ pc = "additional_regions"
    /\ sub[2].mask = {} /\ sub[3].mask # {}
    /\ Len(contours.items) = 7 /\ contours.items[7] # <<>>

\* 'M' with the first point, one 'L' per further point in order, then 'Z'
RECURSIVE PathLines(_, _)
PathLines(contour, n) ==
    IF n < 2 THEN ""
    ELSE PathLines(contour, n - 1) \o " L" \o Str(contour[n][1]) \o "," \o Str(contour[n][2])
ClosedPath(contour) ==
    "M" \o Str(contour[1][1]) \o "," \o Str(contour[1][2]) \o PathLines(contour, Len(contour))
        \o " Z"

\* one path and one label for each entry of at least 3 points, in the map's order
RECURSIVE ExpectedElements(_, _, _, _)
ExpectedElements(items, n, style_config, app) ==
    IF n = 0 THEN <<>>
    ELSE ExpectedElements(items, n - 1, style_config, app)
         \o (IF Len(items[n][2]) < 3 THEN <<>>
             ELSE << [ (IF app THEN CreatePathElementApp("", items[n][1])
                        ELSE CreatePathElement("", items[n][1], style_config))
                       EXCEPT !.attrs[1] = <<"d", ClosedPath(items[n][2])>> ],
                     [ CreateLabelElement(items[n][2], items[n][1], style_config)
                       EXCEPT !.text = Str(items[n][1]) ] >>)

\* the document of a generate call: root, background image, expected elements
ExpectedDocument(c) ==
    \E root \in {CreateSvgRoot(c.image_shape)} :
    \E bg \in {IF c.processed_image # "none"
               THEN AddBackgroundImage(root, c.processed_image, c.image_shape) ELSE root} :
    \E els \in {ExpectedElements(c.contours.items, Len(c.contours.items), c.style,
                                 c.op = "generate_app")} :
        c.result.value = EncodeSvg([bg EXCEPT !.children = @ \o els])

\* C9: for a region contour map, generate (of src/facial and of src/app)
\* emits exactly one path and one label for each entry of at least 3 points
\* and nothing for the others; the path is 'M', an 'L' per further point and
\* 'Z', the label text is the region id
C9_OnePathAndLabelPerRegion ==
    /\ call.op \in {"generate", "generate_app"}
    /\ call.contours.kind = "dict"
    /\ call.image_shape.kind = "tuple" /\ Len(call.image_shape.items) = 2
    => call.result.ok /\ ExpectedDocument(call)

\* the generator of src/facial on {1: square}: one closed 4-point path, label 1
C9_FacialSquare ==
    /\ call.op = "generate" /\ call.contours = Dict(<< <<1, Square>> >>)
    /\ call.image_shape = Shape(<<4, 6>>) /\ call.processed_image = "none"
    /\ call.style = "default"
    /\ call.result.ok /\ ExpectedDocument(call)
    /\ Len(ExpectedElements(call.contours.items, 1, "default", FALSE)) = 2

\* the generator of src/app on {1: square}: a TypeError instead of a document
C9_AppSquareRaises ==
    /\ call.op = "generate_app" /\ call.contours = Dict(<< <<1, Square>> >>)
    /\ call.image_shape = Shape(<<4, 6>>)
    /\ ~call.result.ok

\* two recorded calls of generate with equal inputs returned the same text
SameInputsSameDocument ==
    /\ ref # NoRecord /\ last # NoRecord
    /\ last.image_shape = ref.image_shape /\ last.contours = ref.contours
    /\ last.style = ref.style /\ last.processed_image = ref.processed_image
    => last.result = ref.result

\* a call leaves its arguments and the style configuration as they were
CallChangesNothing == last' # last => args' = args /\ style' = style

OneEntryPerRegion ==
    parpc = "returned"
    => /\ {results[k][1] : k \in 1 .. Len(results)}
              = {parArgs.region_ids[i] : i \in 1 .. Len(parArgs.region_ids)}
       /\ \A k, l \in 1 .. Len(results) : results[k][1] = results[l][1] => k = l
       /\ \A k \in 1 .. Len(results) :
              results[k][2] = ProcessRegion(parArgs.segmentation_map, results[k][1],
                                            parArgs.order)

\* the shared map is only read, and the result map is written by the calling
\* thread alone, with the result of a future it has joined
OnlyCallerWrites ==
    /\ parArgs' = parArgs
    /\ results' # results
       => /\ parpc = "collect" /\ joined' = joined + 1
          /\ futures[joined'].state = "done" /\ futures' = futures
          /\ results' = DictStore(results, futures[joined'].result[1],
                                  futures[joined'].result[2])

\* C11: parallel_process_regions returns exactly one entry for every
\* requested region id, each equal to what processing that id alone
\* produces, for every scheduling and completion order of the workers; the
\* workers only read the segmentation map and the result map is written by
\* the calling thread after joining each worker
C11_ParallelRegionsComplete == [](OneEntryPerRegion) /\ [][OnlyCallerWrites]_vars

\* a run over four region ids has returned its map, with contours in it
C11_FourRegionsReturned ==
    /\ parpc = "returned" /\ Len(parArgs.region_ids) = 4 /\ Len(results) = 4
    /\ \E k \in 1 .. Len(results) : results[k][2] # <<>>

\* the writes of one job, in the order they were stored
RECURSIVE WritesOf(_, _)
WritesOf(writes, job_id) ==
    IF writes = <<>> THEN <<>>
    ELSE IF Head(writes).job_id = job_id
         THEN <<Head(writes)>> \o WritesOf(Tail(writes), job_id)
         ELSE WritesOf(Tail(writes), job_id)
StoredStatus(job_id) ==
    LET w == WritesOf(jobWrites, job_id)
    IN  IF w = <<>> THEN [status |-> "none", error_message |-> ""]
        ELSE [status |-> w[Len(w)].status, error_message |-> w[Len(w)].error_message]
DatabaseEnabled == clients.postgres_client # "None"
CacheEnabled    == clients.perceptual_hash_cache # "None"
CacheStoresOf(job_id) ==
    Cardinality({i \in 1 .. Len(cacheWrites) : cacheWrites[i] = job_id})

ProcessedAtMostOnce ==
    \A t \in 1 .. Len(tasks) : tasks[t].calls <= 1 /\ tasks[t].stores <= 1
SuccessStoredThenCompleted ==
    \A t \in 1 .. Len(tasks) :
       tasks[t].pc = "done" =>
          /\ tasks[t].calls = 1
          /\ CacheEnabled => CacheStoresOf(tasks[t].job_id) = 1
          /\ DatabaseEnabled => StoredStatus(tasks[t].job_id).status = "completed"
FailureRecorded ==
    \A t \in 1 .. Len(tasks) :
       (tasks[t].pc = "crashed" /\ tasks[t].calls = 1 /\ DatabaseEnabled) =>
          /\ StoredStatus(tasks[t].job_id) =
                [status |-> "failed", error_message |-> tasks[t].error]
          /\ tasks[t].error # ""
NoAttemptAfterOutcome ==
    \A t \in 1 .. Len(tasks) :
       (tasks[t].calls = 1 \/ tasks[t].pc \in {"handling", "crashed", "done"}) =>
          /\ tasks'[t].calls = tasks[t].calls
          /\ tasks[t].pc \in {"crashed", "done"} => tasks'[t] = tasks[t]

CacheMiss == ~Truthy(cached)
JobIdsOfResponses ==
    { responses[i].job_id : i \in { j \in 1 .. Len(responses) :
                                      responses[j].kind = "response" } }
QueuedAnswer(i) ==
    /\ responses[i].kind = "response"
    /\ responses[i].status = "queued"
    /\ responses[i].job_id.kind = "int"
    /\ \A j \in 1 .. Len(responses) :
          (j # i /\ responses[j].kind = "response") =>
             responses[j].job_id # responses[i].job_id
    /\ \E t \in 1 .. Len(tasks) : tasks[t].job_id = responses[i].job_id.n
    /\ DatabaseEnabled =>
          LET w == WritesOf(jobWrites, responses[i].job_id.n)
          IN  w # <<>> /\ w[1].status = "queued"
QueuedOnlyFirst ==
    \A t \in 1 .. Len(tasks) :
       LET w == WritesOf(jobWrites, tasks[t].job_id)
       IN  \A k \in 2 .. Len(w) : w[k].status # "queued"

\* C13: a request that misses the cache (or finds caching disabled) is
\* answered with a job id of its own and status 'queued', its task is
\* scheduled, and with the database enabled 'queued' is the first status
\* stored for the job and is never stored again.
C13_MissQueuesJob ==
    /\ CacheMiss => \A i \in 1 .. Len(responses) : QueuedAnswer(i)
    /\ QueuedOnlyFirst

\* with the clients the application wires, a request that misses the cache
\* ends in the TypeError of the cache lookup and no job exists
C13_MissRaises ==
    /\ clients.postgres_client = "PostgresClient"
    /\ CacheMiss
    /\ Len(responses) >= 1
    /\ responses[1] = [kind |-> "raised", error |-> "TypeError"]
    /\ tasks = <<>> /\ jobWrites = <<>>

CacheHit == CacheEnabled /\ Truthy(cached)
CompletedAnswer(i) ==
    /\ responses[i].kind = "response"
    /\ responses[i].status = "completed"
    /\ responses[i].job_id.kind = "str"
    /\ <<responses[i].svg, responses[i].mask_contours>> = extract_result_data(cached)

\* C14: a request that hits the cache is answered with status 'completed', a
\* job_id field, and the svg and mask contours of the cached result, whatever
\* the shape of that result; no job is recorded and no task is scheduled.
C14_HitAnsweredFromCache ==
    CacheHit =>
       /\ \A i \in 1 .. Len(responses) : CompletedAnswer(i)
       /\ tasks = <<>> /\ jobWrites = <<>> /\ cacheWrites = <<>>

\* the cache returns the result in the form the task stores it, svg and
\* mask_contours at the top level, and the answer carries neither
C14_StoredResultDropped ==
    /\ CacheHit
    /\ HasKey(cached, "svg") /\ HasKey(cached, "mask_contours")
    /\ Len(responses) >= 1
    /\ responses[1].kind = "response" /\ responses[1].status = "completed"
    /\ responses[1].svg = JStr("") /\ responses[1].mask_contours = Dict(<<>>)

ProcessFaceRegionsReturned == pc \in {"create_document", "done"} /\ contours.kind = "list"

\* C15: once process_face_regions has returned after drawing at least one
\* region, the image it returned (the one process_image embeds as the
\* background) carries the overlays and numbers drawn on the result image.
C15_ReturnedImageCarriesOverlays ==
    (ProcessFaceRegionsReturned /\ drawn # <<>>) =>
        MarksOn(ProcessFaceRegionsReturn.image) = drawn

\* regions were drawn on the result image and the cropped image, which
\* carries none of them, is what was passed on to the document
C15_PlainImageEmbedded ==
    /\ pc = "done" /\ contours.kind = "list"
    /\ \E i \in 1 .. Len(drawn) : drawn[i].op = "overlay"
    /\ \E i \in 1 .. Len(drawn) : drawn[i].op = "number"
    /\ ProcessFaceRegionsReturn.image = "cropped_image"
    /\ MarksOn("cropped_image") = <<>>

\* C16: the image _apply_region_overlay returns differs from the image it was
\* given only at pixels of the scaled and shifted mask, in flat mode and in
\* dotted mode.
C16_OverlayChangesOnlyMask ==
    call.op = "apply_region_overlay" =>
        \A p \in Px(GridW, GridH) \ call.mask : call.result[p] = call.image[p]

\* flat mode: a pixel outside the mask has lost a tenth of its value
C16_FlatOverlayDarkensOutside ==
    /\ call.op = "apply_region_overlay" /\ ~call.is_dotted
    /\ call.mask = Rect(3, 4, 9, 8)
    /\ call.image[<<0, 0>>] = 254 /\ call.result[<<0, 0>>] = 229
    /\ call.image[<<12, 12>>] = 102 /\ call.result[<<12, 12>>] = 92

\* dotted mode keeps every pixel outside the mask
C16_DottedKeepsOutside ==
    (call.op = "apply_region_overlay" /\ call.is_dotted) =>
        \A p \in Px(GridW, GridH) \ call.mask : call.result[p] = call.image[p]

\* C17: no overlay and no number stamp of the region loops is written into
\* the image the caller passed in: every array written in place is the copy
\* or an array an overlay created, also when an overlay with an empty mask
\* handed its input array on to _draw_region_number.
C17_CallerImageNeverWritten ==
    call.op = "draw_regions" =>
        /\ OriginalImage \notin call.result.written
        /\ call.result.result_image # OriginalImage

\* the widened mask of the first region is empty, the overlay returns the copy
\* it was given, and the number is stamped into that copy
C17_StampedIntoCopy ==
    /\ call.op = "draw_regions"
    /\ call.passes[1].mask = EdgeBlock /\ call.passes[1].shift = ShiftPixels
    /\ call.result.unchanged[1]
    /\ ImageCopy \in call.result.written

Labels(map) == { map.px[p] : p \in DOMAIN map.px }
PreparedMapFits ==
    pc = "prepare_images" =>
        /\ <<seg'.h, seg'.w>> = inp.image_shape
        /\ DOMAIN seg'.px = Px(inp.image_shape[2], inp.image_shape[1])
        /\ Labels(seg') \subseteq Labels(seg)
        /\ (<<seg.h, seg.w>> = inp.image_shape => seg' = seg)

\* C18: the map _prepare_images hands on has the image's height and width,
\* carries no label that the input map did not carry, and is the input map
\* itself when that already had the image's dimensions.
C18_PreparedMapMatchesImage == [][PreparedMapFits]_vars

\* a map of twice the image's size, with several labels, has been resized
C18_LargerMapResized ==
    /\ pc = "apply_rotation_and_crop"
    /\ "resize" \in maskWork
    /\ inp.seg.w = 2 * GridW /\ seg.w = GridW /\ seg.h = GridH
    /\ Cardinality(Labels(inp.seg)) >= 3
    /\ Labels(seg) \subseteq Labels(inp.seg)

ForeheadBand(bbox, cfg) ==
    {p \in Px(GridW, GridH) :
        /\ bbox.y <= p[2] /\ p[2] <= bbox.y + Pct(bbox.h, cfg.forehead_height_ratio) - 1
        /\ bbox.x <= p[1] /\ p[1] <= bbox.x + bbox.w - 1}
ForeheadOf(c) == c.result.value.subdivisions[1].mask
ForeheadInBand(c) ==
    \E bbox \in {AnalyzeFaceContour(c.mask, GridW, GridH, c.order).bbox} :
        /\ ForeheadOf(c) \subseteq ForeheadBand(bbox, c.cfg)
        /\ ForeheadOf(c) \subseteq c.mask
        /\ (c.mask \cap ForeheadBand(bbox, c.cfg) # {}) => ForeheadOf(c) # {}

\* C19: with (x, y, w, h) the bounding box of the main mask's largest contour,
\* every pixel of the forehead mask lies in rows y .. y+int(h*ratio)-1 and
\* columns x .. x+w-1, and the forehead is non-empty whenever the main mask
\* has a pixel in that band.
C19_ForeheadWithinBand ==
    (call.op = "subdivide" /\ call.result.ok) => ForeheadInBand(call)

\* the forehead of the cleaned filled disc: non-empty, in the top 30% of its box
C19_DiscForehead ==
    /\ call.op = "subdivide" /\ call.result.ok
    /\ call.mask = CreateCleanMask(SegMap(<<Disc(6, 6, 6)>>), 1)
    /\ call.cfg.forehead_height_ratio = 30
    /\ ForeheadOf(call) # {}
    /\ \E bbox \in {AnalyzeFaceContour(call.mask, GridW, GridH, call.order).bbox} :
          /\ bbox.h >= 10
          /\ \A p \in ForeheadOf(call) : p[2] <= bbox.y + Pct(bbox.h, 30) - 1

\* the polygon sums over the edges from each point to the next one
Next1(contour, i) == contour[IF i = Len(contour) THEN 1 ELSE i + 1]
Cross(contour, i) ==
    contour[i][1] * Next1(contour, i)[2] - Next1(contour, i)[1] * contour[i][2]
RECURSIVE EdgeSum(_, _, _)
EdgeSum(contour, n, k) ==
    IF n = 0 THEN 0
    ELSE EdgeSum(contour, n - 1, k)
         + (IF k = 0 THEN Cross(contour, n)
            ELSE (contour[n][k] + Next1(contour, n)[k]) * Cross(contour, n))
RECURSIVE CoordSum(_, _, _)
CoordSum(contour, n, k) ==
    IF n = 0 THEN 0 ELSE CoordSum(contour, n - 1, k) + contour[n][k]
\* m10/m00 and m01/m00 truncated, or the truncated mean of the points when
\* the area m00 is zero
CentroidOrMean(contour) ==
    IF EdgeSum(contour, Len(contour), 0) # 0
    THEN << TruncDiv(EdgeSum(contour, Len(contour), 1), 3 * EdgeSum(contour, Len(contour), 0)),
            TruncDiv(EdgeSum(contour, Len(contour), 2), 3 * EdgeSum(contour, Len(contour), 0)) >>
    ELSE << TruncDiv(CoordSum(contour, Len(contour), 1), Len(contour)),
            TruncDiv(CoordSum(contour, Len(contour), 2), Len(contour)) >>
LabelPosition(contour, region_id) ==
    << CentroidOrMean(contour)[1] + (IF region_id = 4 THEN 160 ELSE 0),
       CentroidOrMean(contour)[2] >>

RECURSIVE LabelledElements(_, _, _)
LabelledElements(items, n, style_config) ==
    IF n = 0 THEN <<>>
    ELSE LabelledElements(items, n - 1, style_config)
         \o (IF Len(items[n][2]) < 3 THEN <<>>
             ELSE << CreatePathElement(CreatePathData(items[n][2]), items[n][1], style_config),
                     [ CreateLabelElement(items[n][2], items[n][1], style_config)
                       EXCEPT !.attrs[1] = <<"x", Str(LabelPosition(items[n][2], items[n][1])[1])>>,
                              !.attrs[2] = <<"y", Str(LabelPosition(items[n][2], items[n][1])[2])>> ] >>)
LabelsAtCentroids(c) ==
    \E root \in {CreateSvgRoot(c.image_shape)} :
    \E bg \in {IF c.processed_image # "none"
               THEN AddBackgroundImage(root, c.processed_image, c.image_shape) ELSE root} :
    \E els \in {LabelledElements(c.contours.items, Len(c.contours.items), c.style)} :
        c.result.value = EncodeSvg([bg EXCEPT !.children = @ \o els])

\* C20: every label of a document generate returns stands at the truncated
\* area-weighted centroid of its contour, or at the truncated mean of the
\* contour's points when the area is zero (generate then still succeeds);
\* x is larger by 160 exactly for region 4, y is never shifted.
C20_LabelAtCentroid ==
    (call.op = "generate" /\ call.contours.kind = "dict" /\ call.image_shape.kind = "tuple"
       /\ Len(call.image_shape.items) >= 2) =>
        /\ call.result.ok
        /\ LabelsAtCentroids(call)

\* regions 4 and 7 with the same collinear contour (area zero): labels at the
\* mean of the points, (2 + 160, 2) and (2, 2); region 5 at its centroid
C20_ZeroAreaAndNudge ==
    /\ call.op = "generate" /\ call.result.ok
    /\ call.contours = Dict(<< <<4, Collinear>>, <<7, Collinear>>, <<5, Reverse(Triangle)>> >>)
    /\ EdgeSum(Collinear, 3, 0) = 0
    /\ LabelPosition(Collinear, 4) = <<162, 2>>
    /\ LabelPosition(Collinear, 7) = <<2, 2>>
    /\ LabelPosition(Reverse(Triangle), 5) = <<2, 2>>
    /\ LabelsAtCentroids(call)

\* the children of the document of a generate call, as elements
DocumentChildren(c) ==
    (IF c.processed_image # "none"
     THEN << [ tag   |-> "image",
               attrs |-> << <<"href", "data:image/png;base64,png(" \o c.processed_image \o ")">>,
                            <<"x", "0">>, <<"y", "0">>,
                            <<"width", Str(c.image_shape.items[2])>>,
                            <<"height", Str(c.image_shape.items[1])>>,
                            <<"class", "background-image">> >>,
               text  |-> "" ] >>
     ELSE <<>>)
    \o ExpectedElements(c.contours.items, Len(c.contours.items), c.style, FALSE)
ImageIndices(children) == {i \in 1 .. Len(children) : children[i].tag = "image"}
AttrOf(e, name) == e.attrs[CHOOSE i \in 1 .. Len(e.attrs) : e.attrs[i][1] = name][2]
BackgroundBeneath(c) ==
    \E root \in {CreateSvgRoot(c.image_shape)}, children \in {DocumentChildren(c)} :
        /\ c.result.value = EncodeSvg([root EXCEPT !.children = children])
        /\ ImageIndices(children) = IF c.processed_image # "none" THEN {1} ELSE {}
        /\ \A i \in ImageIndices(children) :
              /\ AttrOf(children[i], "width") = AttrOf(root, "width")
              /\ AttrOf(children[i], "height") = AttrOf(root, "height")
              /\ AttrOf(children[i], "x") = "0" /\ AttrOf(children[i], "y") = "0"

\* C21: a document generated with a background image holds exactly one image
\* element, of the canvas's width and height, before every region path and
\* label; a document generated without one holds no image element.
C21_BackgroundBeneathRegions ==
    (call.op = "generate" /\ call.result.ok) => BackgroundBeneath(call)

\* a background and two regions: the image first, then paths and labels
C21_ImageThenRegions ==
    /\ call.op = "generate" /\ call.result.ok
    /\ call.processed_image = "image"
    /\ call.contours = Dict(<< <<4, Triangle>>, <<9, Square>> >>)
    /\ call.image_shape = Shape(<<GridH, GridW>>)
    /\ Len(DocumentChildren(call)) = 5
    /\ BackgroundBeneath(call)

\* the filled lower half of the ellipse centred at (W // 3 or int(0.68 W),
\* int(0.5 H)) with semi-axes (W // 16, H // 20)
LowerHalfEllipse(W, H, i) ==
    LET cx == IF i = 2 THEN W \div 3 ELSE (68 * W) \div 100
        cy == H \div 2
        a  == W \div 16
        b  == H \div 20
    IN  {p \in Px(W, H) :
            /\ p[2] >= cy
            /\ b * b * (p[1] - cx) * (p[1] - cx) + a * a * (p[2] - cy) * (p[2] - cy)
                   <= a * a * b * b
            /\ Abs(p[1] - cx) <= a /\ p[2] - cy <= b}
UnderEyeContour(c) ==
    ExtractContourPoints(LowerHalfEllipse(c.smap.w, c.smap.h, c.i), c.smap.w, c.smap.h, "scan")

\* C22: what a pass over an under-eye region (index 2 or 3) records is the
\* contour of the lower half-ellipse given by the mask's width and height and
\* the side, whatever the region's own pixels are.
C22_UnderEyeContourFromDimensions ==
    (call.op = "additional_region" /\ call.area >= 1) =>
        call.result.regions_data = << <<call.i, UnderEyeContour(call)>> >>

\* a left under-eye region of 50 pixels or more somewhere on the strip: the
\* contour recorded for it is the half-ellipse's, around (W // 3, H // 2)
C22_LeftUnderEyeRecorded ==
    /\ call.op = "additional_region" /\ call.i = 2
    /\ call.area >= 50
    /\ Len(call.result.regions_data) = 1
    /\ call.result.regions_data[1][1] = 2
    /\ Len(call.result.regions_data[1][2]) >= 3
    /\ \A k \in 1 .. Len(call.result.regions_data[1][2]) :
          /\ call.result.regions_data[1][2][k][2] >= StripH \div 2
          /\ Abs(call.result.regions_data[1][2][k][1] - StripW \div 3) <= StripW \div 16

\* C23: when the eyes are level, rotate_and_crop_face applied to its own
\* output returns that output again: the second crop box covers the whole of
\* the first crop, the image is the same window of pixels and the landmarks
\* are shifted by zero.
WholeOf(image) == [x1 |-> 0, y1 |-> 0, x2 |-> image.w, y2 |-> image.h]
C23_RealignReturnsSame ==
    (call.op = "realign" /\ call.first.level) =>
        /\ call.second.level
        /\ call.second.crop_box = WholeOf(call.first.cropped)
        /\ call.second.cropped = call.first.cropped
        /\ call.second.cropped_landmarks = call.first.cropped_landmarks
\* a face in the middle of the photograph: the first call cuts a strictly
\* smaller image out of it and moves the landmarks, the second is applied to that
C23_CroppedThenRealigned ==
    /\ call.op = "realign"
    /\ call.first.level
    /\ call.first.crop_box.x1 > 0 /\ call.first.crop_box.y1 > 0
    /\ call.first.cropped.w < AlignW /\ call.first.cropped.h < AlignH
    /\ call.first.cropped_landmarks # call.landmarks
    /\ call.second.cropped.w > 0

\* C25: the box of get_padded_bbox lies within the image and is non-empty,
\* 0 <= x_start < x_end <= W and 0 <= y_start < y_end <= H, wherever the
\* rotated landmarks lie; the crop is not empty.
BoxWithinImage(box, W, H) ==
    /\ 0 <= box.x1 /\ box.x1 < box.x2 /\ box.x2 <= W
    /\ 0 <= box.y1 /\ box.y1 < box.y2 /\ box.y2 <= H
C25_BoxWithinImage ==
    call.op = "get_padded_bbox" =>
        /\ BoxWithinImage(call.crop_box, AlignW, AlignH)
        /\ call.cropped.w > 0 /\ call.cropped.h > 0
\* landmarks left of the photograph by more than the padding: x_end is negative
C25_LandmarksOutside ==
    /\ call.op = "get_padded_bbox"
    /\ call.points = {<<-40, 30>>, <<-36, 34>>}
    /\ call.crop_box.x1 = 0 /\ call.crop_box.x2 = -5
\* the box is within the image when a landmark is
C25_BoxWithinImageWhenLandmarkInside ==
    (call.op = "get_padded_bbox"
        /\ \E p \in call.points : p[1] \in 0 .. AlignW - 1 /\ p[2] \in 0 .. AlignH - 1) =>
        /\ BoxWithinImage(call.crop_box, AlignW, AlignH)
        /\ call.cropped = [x |-> call.crop_box.x1, y |-> call.crop_box.y1,
                           w |-> call.crop_box.x2 - call.crop_box.x1,
                           h |-> call.crop_box.y2 - call.crop_box.y1]

\* C24: within one run every region id receives the contour of at most one
\* region: no step stores a contour into an entry of the list that already
\* holds one, and the regions merged by one step have distinct ids, none of
\* them the id of a subdivision (1, 4, 6, 7).
Filled(items) == {k \in 1 .. Len(items) : items[k] # <<>>}
FilledKept ==
    \A k \in Filled(contours.items) :
        k <= Len(contours'.items) /\ contours'.items[k] = contours.items[k]
AdditionalIds ==
    LET unique_colors == GetUniqueColors(seg)
        non_black == SelectSeq(unique_colors, LAMBDA c : c # 0)
        potential == SelectSeq(non_black, LAMBDA c : c # non_black[1])
        data == ProcessAdditionalRegions(seg, potential, inp.cfg, inp.order).regions_data
    IN  [i \in 1 .. Len(data) |-> data[i][1]]
MergedIdsFresh ==
    pc = "additional_regions" =>
        \E ids \in {Val(AdditionalIds)} :
            /\ \A i, j \in 1 .. Len(ids) : i # j => ids[i] # ids[j]
            /\ \A i \in 1 .. Len(ids) : ids[i] \notin {1, 4, 6, 7}
            /\ \A i \in 1 .. Len(ids) : ids[i] + 1 \notin Filled(contours.items)
            /\ Cardinality(Filled(contours'.items))
                   = Cardinality(Filled(contours.items)) + Len(ids)
C24_NoContourOverwritten == [][FilledKept /\ MergedIdsFresh]_vars
\* a run over a map of six colours: the list holds the contour of a
\* subdivision and the contours of the nose and of an under-eye region
C24_SubdivisionsAndAdditional ==
    /\ pc = "create_document"
    /\ Filled(contours.items) \cap {2, 5} # {}
    /\ 6 \in Filled(contours.items)
    /\ Filled(contours.items) \cap {3, 4} # {}

\* C26: the stored status of a job only moves forward along queued ->
\* processing -> (completed | failed): every status stored for a job comes
\* later in that order than the status stored before it, so nothing is stored
\* over 'completed' and 'completed' is never stored over 'failed'.
StatusRank(status) ==
    CASE status = "queued" -> 0
      [] status = "processing" -> 1
      [] status \in {"completed", "failed"} -> 2
      [] OTHER -> -1
StatusesOf(job_id) ==
    LET w == WritesOf(jobWrites, job_id) IN [i \in 1 .. Len(w) |-> w[i].status]
C26_StatusMovesForward ==
    \A t \in 1 .. Len(tasks) :
        \E st \in {StatusesOf(tasks[t].job_id)} :
            /\ \A i \in 1 .. Len(st) : StatusRank(st[i]) >= 0
            /\ \A i \in 1 .. Len(st) - 1 : StatusRank(st[i]) < StatusRank(st[i + 1])
\* one job went queued, processing, completed and the other queued,
\* processing, failed, and both tasks have ended
C26_BothOutcomesStored ==
    /\ Len(tasks) = 2
    /\ tasks[1].pc = "done" /\ tasks[2].pc = "crashed"
    /\ StatusesOf(tasks[1].job_id) = <<"queued", "processing", "completed">>
    /\ StatusesOf(tasks[2].job_id) = <<"queued", "processing", "failed">>

\* C27: with the database enabled, a task that has ended, by returning or by
\* an exception, has left the job 'completed' or 'failed', never 'queued' or
\* 'processing', also when a status write failed.
C27_EndedTaskHasOutcome ==
    \A t \in 1 .. Len(tasks) :
        (DatabaseEnabled /\ tasks[t].pc \in {"done", "crashed"}) =>
            StoredStatus(tasks[t].job_id).status \in {"completed", "failed"}
\* the processing raised while the database was down: the write of 'failed'
\* raised out of the except block and the job is left at 'processing'
C27_LeftProcessing ==
    \E t \in 1 .. Len(tasks) :
        /\ DatabaseEnabled
        /\ tasks[t].pc = "crashed" /\ tasks[t].calls = 1
        /\ StoredStatus(tasks[t].job_id).status = "processing"
\* the task leaves an outcome whenever its last status write went through
C27_OutcomeWhenLastWriteStored ==
    [][\A t \in 1 .. Len(tasks) :
          (DatabaseEnabled /\ tasks[t].pc \in {"processed", "handling"}
              /\ tasks'[t].pc \in {"done", "crashed"} /\ jobWrites' # jobWrites) =>
              StoredStatus(tasks[t].job_id)'.status \in {"completed", "failed"}]_vars

\* C28: under every interleaving of store_cache_result calls of concurrent
\* sessions the cache holds at most one entry per input_hash; a store that
\* finds the hash replaces the result of that entry and returns its id; a
\* call that fails, the loser of the check-then-insert race included, ends
\* rolled back with a DatabaseException and leaves no entry of its own.  The
\* replacement is stated for runs of store_cache_result calls alone: a
\* cleanup between the lookup and the update can delete the entry found.
OneEntryPerHash ==
    \A a, b \in cacheTable : (a.input_hash = b.input_hash \/ a.id = b.id) => a = b
StoreOf(s) == sessions[s].op = "store_cache_result"
FailedStoreLeavesNothing ==
    \A s \in 1 .. MaxSessions :
        (StoreOf(s) /\ sessions[s].pc \in {"rollback", "raised"}) =>
            /\ \A c \in cacheTable : c.result # sessions[s].result
            /\ sessions[s].pc = "raised" =>
                  /\ sessions[s].pending = NoPending
                  /\ sessions[s].ret = [kind |-> "DatabaseException"]
OnlyStores == \A o \in 1 .. MaxSessions : sessions[o].op # "cleanup_old_data"
ExistingEntryReplaced ==
    \A s \in 1 .. MaxSessions :
        (OnlyStores /\ StoreOf(s) /\ sessions[s].pc = "commit" /\ sessions'[s].pc = "returned"
            /\ sessions[s].pending.kind = "update"
            /\ \E c \in cacheTable : c.input_hash = sessions[s].input_hash) =>
            /\ sessions'[s].ret = [kind |-> "cache_id", id |-> SelectCache(sessions[s].input_hash)]
            /\ Cardinality(cacheTable') = Cardinality(cacheTable)
            /\ \E c \in cacheTable' :
                  /\ c.input_hash = sessions[s].input_hash
                  /\ c.id = SelectCache(sessions[s].input_hash)
                  /\ c.result = sessions[s].result
C28_OneEntryPerHash ==
    /\ [](OneEntryPerHash /\ FailedStoreLeavesNothing)
    /\ [][ExistingEntryReplaced]_vars
\* two sessions looked up the same new hash and found nothing: the first
\* inserted it and returned its id, the second lost the race
C28_RaceLost ==
    \E s, o \in 1 .. MaxSessions :
        /\ OnlyStores
        /\ s # o /\ StoreOf(s) /\ StoreOf(o)
        /\ sessions[s].input_hash = sessions[o].input_hash
        /\ sessions[s].pc = "returned" /\ sessions[s].ret.kind = "cache_id"
        /\ sessions[o].pc = "raised" /\ sessions[o].found = NoCacheId
        /\ \E c \in cacheTable : c.id = sessions[s].ret.id /\ c.result = sessions[s].result
                                 /\ c.created_at = Today

\* C29: cleanup_old_data is all-or-nothing and keeps the references whole:
\* no job names a cache entry that is not there and no metrics row names a
\* job that is not there; a cleanup that returns has deleted every old row of
\* the three tables, one that raises has deleted nothing.
ReferencesWhole ==
    /\ \A j \in jobTable : j.cache_id = NoCacheId \/ \E c \in cacheTable : c.id = j.cache_id
    /\ \A m \in metricsTable : \E j \in jobTable : j.id = m.job_id
CleanupAllOrNothing ==
    \A s \in 1 .. MaxSessions :
        (sessions[s].pc = "idle" /\ sessions'[s].op = "cleanup_old_data") =>
            IF sessions'[s].pc = "returned"
            THEN /\ cacheTable' = cacheTable \ Old(cacheTable)
                 /\ jobTable' = jobTable \ Old(jobTable)
                 /\ metricsTable' = metricsTable \ Old(metricsTable)
            ELSE /\ sessions'[s].ret = [kind |-> "DatabaseException"]
                 /\ <<cacheTable, jobTable, metricsTable>>' = <<cacheTable, jobTable, metricsTable>>
C29_CleanupKeepsReferences ==
    /\ []ReferencesWhole
    /\ [][CleanupAllOrNothing]_vars
\* a cleanup returned after deleting the old cache entry and the old job;
\* the recent job and the recent entry it names are still there
C29_OldRowsDeleted ==
    /\ \E s \in 1 .. MaxSessions :
          sessions[s].op = "cleanup_old_data" /\ sessions[s].pc = "returned"
    /\ jobTable = {JobRow("j2", 2, 50)}
    /\ \E c \in cacheTable : c.id = 2
    /\ \A c \in cacheTable : c.id # 1
\* a cleanup raised over a recent job that names an old cache entry
C29_RecentJobOldEntry ==
    /\ \E s \in 1 .. MaxSessions :
          sessions[s].op = "cleanup_old_data" /\ sessions[s].pc = "raised"
    /\ jobTable = {JobRow("j1", 1, 50)}
    /\ \E c \in cacheTable : c.id = 1 /\ c.created_at = 0

\* a session found the entry of its hash, replaced its result and returned
\* the id of that entry
C28_EntryReplaced ==
    \E s \in 1 .. MaxSessions :
        /\ OnlyStores /\ StoreOf(s) /\ sessions[s].pc = "returned"
        /\ sessions[s].ret = [kind |-> "cache_id", id |-> 1]
        /\ CacheRow(1, "h1", sessions[s].result, 0) \in cacheTable

\* C30: revocation of a refresh token is permanent: once revoke_refresh_token
\* or revoke_all_user_tokens has committed for a token, verify_refresh_token
\* returns no user for it in every later state, a refresh request made with
\* it is answered 401 and issues nothing, and no operation, the issuing of
\* new tokens for the same user included, clears a revoked flag.
RevokedNeverVerifies == \A t \in revocations : VerifyRefreshToken(t) = NoUser
RefreshAfterRevocationRejected ==
    \A k \in 1 .. Len(refreshes) :
        refreshes[k].after_revocation =>
            refreshes[k].pc = "401" /\ refreshes[k].user = NoUser
RevokedFlagKept ==
    \A r \in refreshTokens : r.is_revoked =>
        \A q \in refreshTokens' : q.token = r.token => q.is_revoked
C30_RevocationPermanent ==
    /\ [](RevokedNeverVerifies /\ RefreshAfterRevocationRejected)
    /\ [][RevokedFlagKept]_vars
\* a token was revoked and is still stored; its user has since been handed a
\* new token that verifies, and a refresh request with the revoked token
\* was answered 401
C30_RevokedThenReissued ==
    \E t \in revocations :
        /\ \E r \in refreshTokens : r.token = t /\ r.is_revoked
        /\ VerifyToken(t)
        /\ \E i \in issued : i.token # t /\ i.token.sub = t.sub
                             /\ VerifyRefreshToken(i.token) = t.sub
        /\ \E k \in 1 .. Len(refreshes) :
              refreshes[k].token = t /\ refreshes[k].after_revocation

====
